---- MODULE Spec2Model ----
(***************************************************************************)
(* State-machine model of the three scrapers of Browser-Automation-Suite:  *)
(*   - NewyorkCourtScraper      (newyork_court_scraper.py)                 *)
(*   - NorthCarolinaScraper     (northcarolina_scraper.py)                 *)
(*   - AttorneyDetailsScraper   (ny_attorney_details_scraper.py)           *)
(* The browser, the portals and the HTTP endpoints are the environment:    *)
(* what they answer is chosen nondeterministically from bounded sets.      *)
(***************************************************************************)
EXTENDS Integers, Sequences, FiniteSets, TLC

(***************************************************************************)
(* Bounds of the model (not program constants).                            *)
(***************************************************************************)
NumCounties == 1      \* county options of #CourtSelect after the placeholder
DataMonths == 1       \* months (from January) for which the portal holds filings
RunLinks == 1         \* SpecNY: case-file links of a result set (one page)
MaxPages == 3         \* SpecNYQuery: result pages of the query
MaxLinks == 2         \* SpecNYQuery: case-file links on one result page
MaxFaults == 2        \* SpecNYQuery: per-item failures the environment injects
MaxDepth == 5         \* call-stack frames before Python's RecursionError
MaxQueries == 2       \* SpecNC: record-number searches that return cases
MaxCases == 1         \* SpecNC: rows of one result grid
MaxParties == 2       \* SpecParties: parties of one case
MaxAttorneys == 2     \* SpecParties: attorneys of one party
MaxEvents == 2        \* SpecPdf: events of one case
MaxParentLinks == 2   \* SpecPdf: parent links of one document
MaxListed == 2        \* SpecAD: attorneys read from the input CSV
MaxSaves == 4         \* SpecSave: save_to_csv calls
MaxBatch == 1         \* SpecSave: records of one batch
MaxWidth == 3         \* SpecNcSave: attorneys of one record
MaxRecords == 3       \* SpecNcSave: records of the batch
MaxCandidates == 2    \* SpecMatch: result links of one attorney search
MaxNameTokens == 4    \* SpecNames: space-separated pieces of one attorney name
DefaultPageSize == 1  \* SpecGrid: rows #CasesGrid shows before a page size is chosen

(***************************************************************************)
(* Program constants.                                                      *)
(***************************************************************************)
max_navigation_retries == 3
navigation_delay_seconds == 5
NumMonths == 12
retries == 2

VARIABLES
  \* ---- NewyorkCourtScraper.run and the functions it calls
  nyPc,                   \* position in run()
  count_proceeding_types, \* run(): count_proceeding_types
  countyIdx,              \* run(): index of `county` in all_countys
  monthIdx,               \* run(): index of `range_info` in monthly_ranges
  attempt,                \* run(): `attempt` of the navigation retry loop
  scraped_data,           \* run(): the batch of the (proceeding type, county) scope
  courtCsv,               \* the file scraped_data.csv
  hist,                   \* session history of the tab; its last entry is the page shown
  stack,                  \* activations of get_attorney_info / get_next_page
  qPages,                 \* portal: result pages of the query submitted last
  qLinks,                 \* portal: case-file links on each of those pages
  portal,                 \* portal: the largest result set and the failures it serves
  faults,                 \* failures the environment may still inject
  \* ---- observations of the NY court run (history variables)
  gotoCalls,              \* page.goto calls of the current retry loop
  sleptSeconds,           \* seconds slept in the current retry loop
  allScraped,             \* every record ever appended to a batch, in order
  completedScopes,        \* scopes whose 12-month loop has ended
  saveCalls,              \* scopes for which save_to_csv was called, in order
  searches,               \* number of searches submitted
  exitStatus,             \* "running", or the exit status of the process
  fatalLogged,            \* the top-level guard logged "FATAL ERROR during execution"
  abortCause,             \* the exception that reached the guard
  \* ---- NorthCarolinaScraper.run and the functions it calls
  ncPc,                   \* position in run() / scrape_cases() / get_pdf_files()
  record_num,             \* run(): record_num
  nc_scraped_data,        \* self.scraped_data
  ncCsv,                  \* the file Scraped Data/scraped_data.csv
  ncRows,                 \* scrape_cases(): len(all_cases)
  ncGrid,                 \* #CasesGrid when its inner_html was read last
  caseIdx,                \* scrape_cases(): index of `case` in all_cases
  check_case_type,        \* scrape_cases(): check_case_type
  attorney_info,          \* scrape_cases(): attorney_info
  all_case_events,        \* get_pdf_files(): all_case_events
  evIdx,                  \* get_pdf_files(): index of `case_event`
  linkIdx,                \* get_pdf_files(): index of `link` in parent_links
  dlAttempt,              \* download_file(): attempt
  files_downloaded,       \* get_pdf_files(): files_downloaded
  pdf_found,              \* get_pdf_files(): pdf_found
  ncPartiesMenu,          \* portal: the Parties payloads the API may answer
  ncEventsMenu,           \* portal: the Events payloads the API may answer
  ncTotalsMenu,           \* portal: how many cases a search may match
  \* ---- observations of the NC run (history variables)
  captcha_token,          \* run(): what solve_recaptcha_v2 returned for the search
                          \* submitted last: "token", "None", or "spent" once
                          \* the portal has answered
  dlResults,              \* what each download_file call of the case returned
  ncFileLog,              \* get_pdf_files: the open(filepath, "wb") calls and the
                          \* "Skipping this file" notices of the call at hand
  ncSearched,             \* the record numbers searched, in order
  ncSteps,                \* the page and solver operations of the last iteration of
                          \* the search loop, in order
  ncAllScraped,           \* every record ever appended, in order
  ncSaveCalls,            \* number of save_to_csv calls
  ncExit,                 \* "running", or the exit status of the process
  ncFatalLogged,          \* a fatal message was logged
  ncCause,                 \* the exception that ended the process
  \* ---- AttorneyDetailsScraper.run
  adPc,                   \* position in run()
  adIdx,                  \* run(): index of `attorney` in attorneys_list
  adCsv,                  \* attorney_details.csv
  adExit,                 \* "running", or the exit status of the process
  adFatalLogged,          \* the guard of run() has logged "FATAL ERROR"
  savesDone,              \* save_to_csv calls made on their own (SpecSave)
  attorneys_list,         \* run(): what get_attorneys_list() returns
  adLinkMenu,             \* portal: the result links a search may show
  adCaptchaMenu,          \* portal: what the h-captcha widget may be when search is clicked
  adPageMenu,             \* portal: the attorney detail pages a result link may open
  cleaned_name,           \* run(): cleaned_name of the attorney processed last
  first_name,             \* run(): first_name ("" and None are << >>)
  middle_name,            \* run(): middle_name
  last_name,              \* run(): last_name
  adLinks,                \* run(): the texts of `links` of the last search
  adClicked,              \* index in `links` of link_to_click, 0: none clicked
  adWarned,               \* the "No exact match found" warning was logged
  adOutcome,              \* how the last attorney's step ended
  adExtracted,            \* how many times extract_attorney_details has returned
  adForm,                 \* browser: the text now in the three name inputs of the form
  adSubmitted,            \* the text in the three inputs when search was clicked last
  adCaptcha,              \* the h-captcha widget when search was clicked last
  adBrowser               \* browser: the view of the main page, the detail tabs open

nyVars == << nyPc, count_proceeding_types, countyIdx, monthIdx, attempt,
             scraped_data, courtCsv, hist, stack, qPages, qLinks, portal,
             faults, gotoCalls, sleptSeconds, allScraped, completedScopes, saveCalls,
             searches, exitStatus, fatalLogged, abortCause >>

ncVars == << ncPc, record_num, captcha_token, nc_scraped_data, ncCsv, ncRows, ncGrid,
             ncTotalsMenu, caseIdx,
             check_case_type,
             attorney_info, all_case_events, evIdx, linkIdx, dlAttempt,
             files_downloaded, pdf_found, ncPartiesMenu, ncEventsMenu, dlResults, ncFileLog,
             ncSearched, ncSteps, ncAllScraped, ncSaveCalls, ncExit, ncFatalLogged, ncCause >>

adInputV == << attorneys_list, adLinkMenu, adCaptchaMenu, adPageMenu >>

adStepV == << cleaned_name, first_name, middle_name, last_name, adLinks, adClicked,
              adWarned, adOutcome, adExtracted, adForm, adSubmitted, adCaptcha, adBrowser >>

adVars == << adPc, adIdx, adCsv, adExit, adFatalLogged, savesDone, adInputV, adStepV >>

vars == << nyVars, ncVars, adVars >>

(***************************************************************************)
(* CSV files.  A file is NoFile (it does not exist) or the sequence of its *)
(* rows.  File I/O primitives are taken to succeed.                        *)
(***************************************************************************)
NoFile == [exists |-> FALSE, rows |-> << >>]

\* NewyorkCourtScraper.save_to_csv, lines 372-380
HeaderRow ==
  [kind |-> "header",
   rec |-> << "County", "File Number", "Proceeding Type", "Estate Attorney",
              "Estate Attorney Firm" >>]

\* AttorneyDetailsScraper.save_to_csv, lines 294-301
AdHeaderRow ==
  [kind |-> "header", rec |-> << "Estate Attorney", "Email", "Address", "Phone" >>]

DataRow(item) == [kind |-> "data", rec |-> item]

RECURSIVE RowsOf(_)
RowsOf(items) ==
  IF items = << >> THEN << >>
  ELSE << DataRow(Head(items)) >> \o RowsOf(Tail(items))

WritesHeader_always(file_exists) == TRUE

\* save_to_csv, lines 362 and 371: if not file_exists
WritesHeader(file_exists) == ~file_exists

\* NewyorkCourtScraper.save_to_csv: append mode, header only for a new file.
ny_save_to_csv(file, items) ==
  LET file_exists == file.exists
      header == IF WritesHeader(file_exists) THEN << HeaderRow >> ELSE << >>
  IN [exists |-> TRUE, rows |-> file.rows \o header \o RowsOf(items)]

\* AttorneyDetailsScraper.save_to_csv: append mode, header only for a new file.
ad_save_to_csv(file, items) ==
  LET file_exists == file.exists
      header == IF WritesHeader(file_exists) THEN << AdHeaderRow >> ELSE << >>
  IN [exists |-> TRUE, rows |-> file.rows \o header \o RowsOf(items)]

DataRecs(file) ==
  LET data == SelectSeq(file.rows, LAMBDA r : r.kind = "data")
  IN [k \in 1..Len(data) |-> data[k].rec]

(***************************************************************************)
(* The browser tab.                                                        *)
(***************************************************************************)
FormView == [kind |-> "form", page |-> 0, link |-> 0]
ResultsView(p) == [kind |-> "results", page |-> p, link |-> 0]
DetailView(p, l) == [kind |-> "detail", page |-> p, link |-> l]

View == hist[Len(hist)]

\* page.go_back(): one entry back in the session history.
GoBack(h) == IF Len(h) > 1 THEN SubSeq(h, 1, Len(h) - 1) ELSE h

\* locator "#NameResultsTable .ButtonAsLink": the case-file links of the page shown.
FileLinkCount(v) == IF v.kind = "results" THEN qLinks ELSE 0

\* locator "ul.pagination a.page-link:not(li.active a.page-link)": the page links
\* of the pagination control except the one of the page shown, in document order.
PageLinks(v) ==
  IF v.kind = "results" /\ qPages >= 2
  THEN SelectSeq([q \in 1..qPages |-> q], LAMBDA q : q # v.page)
  ELSE << >>

(***************************************************************************)
(* NewyorkCourtScraper                                                     *)
(***************************************************************************)
Frame(fn, origin) == [fn |-> fn, st |-> "enter", i |-> 0, n |-> 0, origin |-> origin]

Top == stack[Len(stack)]

SetTop(f) == [stack EXCEPT ![Len(stack)] = f]

Pop(s) == SubSeq(s, 1, Len(s) - 1)

Scope == << count_proceeding_types, countyIdx >>

\* get_attorney_info, lines 93-115: the elements of a file-history page the
\* extraction looks for
CourtFields ==
  { "Court", "FileNumber", "Proceeding", "Estate Attorney", "Estate Attorney Firm" }

\* lines 94-95: soup.select_one("#Court").get("value") and the same for
\* "#FileNumber" raise AttributeError when the element is not on the page
ExtractionRaises(detail) == ~({ "Court", "FileNumber" } \subseteq detail)

\* lines 88-115 and 124-130: the values read from the page, None (written as
\* an empty cell) for an optional element that is not there
ExtractedFields(detail) ==
  [f \in CourtFields |-> IF f \in detail THEN << f >> ELSE << >>]

\* the record get_attorney_info builds from the detail page of link l of page p
AttorneyInfo(p, l) ==
  << count_proceeding_types, countyIdx, monthIdx, p, l, ExtractedFields(portal.detail) >>

\* run(), lines 355-358: the guard around the whole run.
ny_guard(cause) ==
  /\ nyPc' = "exited"
  /\ exitStatus' = 1
  /\ fatalLogged' = TRUE
  /\ abortCause' = cause
  /\ stack' = << >>

NotAborting == UNCHANGED << exitStatus, fatalLogged, abortCause >>

\* what every step of a query leaves alone
nyQueryFrame ==
  UNCHANGED << count_proceeding_types, countyIdx, attempt, courtCsv, qPages, qLinks, portal,
               gotoCalls, sleptSeconds, completedScopes, saveCalls, searches, ncVars,
               adVars >>

\* an exception leaves get_attorney_info / get_next_page and reaches the guard
ny_raise(cause) ==
  /\ ny_guard(cause)
  /\ UNCHANGED << hist, monthIdx >>

\* the step stays inside the query with call stack stk and history h
ny_continue(stk, h) ==
  /\ stack' = stk
  /\ hist' = h
  /\ NotAborting
  /\ UNCHANGED << nyPc, monthIdx >>

\* get_attorney_info returns to its caller, stk being the stack below it:
\* to run() (lines 336-338, next month), or to get_next_page (line 188:
\* page.go_back(), then the next page link).
ny_return_from_gai(stk) ==
  /\ NotAborting
  /\ IF stk = << >>
     THEN /\ stack' = << >>
          /\ hist' = hist
          /\ nyPc' = "month"
          /\ monthIdx' = monthIdx + 1
     ELSE /\ stack' = [stk EXCEPT ![Len(stk)].i = @ + 1, ![Len(stk)].st = "loop"]
          /\ hist' = GoBack(hist)
          /\ UNCHANGED << nyPc, monthIdx >>

\* a call of fn from the top frame; Python raises RecursionError at its limit
ny_call(fn, h) ==
  IF Len(stack) >= MaxDepth
  THEN /\ ny_guard("RecursionError")
       /\ hist' = h
       /\ UNCHANGED monthIdx
  ELSE ny_continue(Append(SetTop([Top EXCEPT !.st = "called"]), Frame(fn, h[Len(h)])), h)

\* run(), lines 229-241: connect, first goto, read the county options.
ny_run_start ==
  /\ UNCHANGED << portal, ncVars, adVars >>
  /\ nyPc = "start"
  /\ hist' = << FormView >>
  /\ nyPc' = "proceeding"
  /\ NotAborting
  /\ UNCHANGED << count_proceeding_types, countyIdx, monthIdx, attempt, scraped_data,
                  courtCsv, stack, qPages, qLinks, faults, gotoCalls, sleptSeconds,
                  allScraped, completedScopes, saveCalls, searches >>

\* run(), lines 233-237: connecting or the first goto raises.
ny_run_start_fail ==
  /\ UNCHANGED << portal, ncVars, adVars >>
  /\ nyPc = "start"
  /\ ny_guard("startup")
  /\ UNCHANGED << count_proceeding_types, countyIdx, monthIdx, attempt, scraped_data,
                  courtCsv, hist, qPages, qLinks, faults, gotoCalls, sleptSeconds,
                  allScraped, completedScopes, saveCalls, searches >>

\* the proceeding type never switched
proceeding_type_input_first_only(count) == "PROBATE & PRELIMINARY PETITIONS"

\* run(), lines 246-248: the proceeding type of an iteration of the outer
\* loop, from count_proceeding_types as the iteration finds it
proceeding_type_input(count) ==
  IF count = 1 THEN "ADMINISTRATION PETITION" ELSE "PROBATE & PRELIMINARY PETITIONS"

\* run(), lines 291-298: what the form is filled with; count_proceeding_types
\* was incremented at line 254, after the proceeding type was chosen
SearchInput ==
  [proceeding |-> proceeding_type_input(count_proceeding_types - 1),
   county |-> countyIdx, month |-> monthIdx]

\* run(), lines 244-256 and 350-353: the proceeding-type loop.
ny_run_proceeding ==
  /\ UNCHANGED << portal, ncVars, adVars >>
  /\ nyPc = "proceeding"
  /\ IF count_proceeding_types > 1
     THEN /\ nyPc' = "done"
          /\ exitStatus' = 0
          /\ UNCHANGED << count_proceeding_types, countyIdx >>
     ELSE /\ count_proceeding_types' = count_proceeding_types + 1
          /\ countyIdx' = 1
          /\ nyPc' = "county"
          /\ UNCHANGED exitStatus
  /\ UNCHANGED << monthIdx, attempt, scraped_data, courtCsv, hist, stack, qPages,
                  qLinks, faults, gotoCalls, sleptSeconds, allScraped,
                  completedScopes, saveCalls, searches, fatalLogged, abortCause >>

FreshBatch_kept(batch) == batch

\* run(), line 261: scraped_data = []
FreshBatch(batch) == << >>

\* run(), lines 258-261: next county, fresh batch.
ny_run_county ==
  /\ UNCHANGED << portal, ncVars, adVars >>
  /\ nyPc = "county"
  /\ IF countyIdx <= NumCounties
     THEN /\ scraped_data' = FreshBatch(scraped_data)
          /\ monthIdx' = 1
          /\ nyPc' = "month"
     ELSE /\ nyPc' = "proceeding"
          /\ UNCHANGED << scraped_data, monthIdx >>
  /\ NotAborting
  /\ UNCHANGED << count_proceeding_types, countyIdx, attempt, courtCsv, hist, stack,
                  qPages, qLinks, faults, gotoCalls, sleptSeconds, allScraped,
                  completedScopes, saveCalls, searches >>

\* run(), lines 262-264: next month, or the end of the month loop.
ny_run_month ==
  /\ UNCHANGED << portal, ncVars, adVars >>
  /\ nyPc = "month"
  /\ IF monthIdx <= NumMonths
     THEN /\ attempt' = 0
          /\ gotoCalls' = 0
          /\ sleptSeconds' = 0
          /\ nyPc' = "navigate"
     ELSE /\ nyPc' = "scope_end"
          /\ UNCHANGED << attempt, gotoCalls, sleptSeconds >>
  /\ NotAborting
  /\ UNCHANGED << count_proceeding_types, countyIdx, monthIdx, scraped_data, courtCsv,
                  hist, stack, qPages, qLinks, faults, allScraped, completedScopes,
                  saveCalls, searches >>

\* run(), lines 264-277: page.goto succeeds, the retry loop is left.
ny_run_goto_ok ==
  /\ UNCHANGED << portal, ncVars, adVars >>
  /\ nyPc = "navigate"
  /\ attempt < max_navigation_retries
  /\ gotoCalls' = gotoCalls + 1
  /\ hist' = << FormView >>
  /\ nyPc' = "fill"
  /\ NotAborting
  /\ UNCHANGED << count_proceeding_types, countyIdx, monthIdx, attempt, scraped_data,
                  courtCsv, stack, qPages, qLinks, faults, sleptSeconds, allScraped,
                  completedScopes, saveCalls, searches >>

RetryAfterFailure_always(a) == a < max_navigation_retries

\* run(), line 280: if attempt < self.max_navigation_retries - 1
RetryAfterFailure(a) == a < max_navigation_retries - 1

\* run(), lines 279-289: page.goto raises.
ny_run_goto_fail ==
  /\ UNCHANGED << portal, ncVars, adVars >>
  /\ nyPc = "navigate"
  /\ attempt < max_navigation_retries
  /\ gotoCalls' = gotoCalls + 1
  /\ IF RetryAfterFailure(attempt)
     THEN /\ sleptSeconds' = sleptSeconds + navigation_delay_seconds
          /\ attempt' = attempt + 1
          \* a for loop that runs out of attempts falls through to line 291
          /\ nyPc' = IF attempt + 1 < max_navigation_retries THEN "navigate" ELSE "fill"
          /\ NotAborting
          /\ UNCHANGED stack
     ELSE /\ ny_guard("navigation")
          /\ UNCHANGED << sleptSeconds, attempt >>
  /\ UNCHANGED << count_proceeding_types, countyIdx, monthIdx, scraped_data, courtCsv,
                  hist, qPages, qLinks, faults, allScraped, completedScopes,
                  saveCalls, searches >>

\* the banner step without the step to the next month
ny_run_search_no_results_same_month ==
  /\ UNCHANGED << portal, ncVars, adVars >>
  /\ nyPc = "fill"
  /\ searches' = searches + 1
  /\ qPages' = 0
  /\ qLinks' = 0
  /\ hist' = Append(hist, FormView)
  /\ nyPc' = "navigate"
  /\ NotAborting
  /\ UNCHANGED << count_proceeding_types, countyIdx, monthIdx, attempt, scraped_data,
                  courtCsv, stack, faults, gotoCalls, sleptSeconds, allScraped,
                  completedScopes, saveCalls >>

\* run(), lines 291-324: fill the form, submit, the portal shows the banner
\* "No Matching Files Were Found": continue with the next month.
ny_run_search_no_results ==
  /\ UNCHANGED << portal, ncVars, adVars >>
  /\ nyPc = "fill"
  /\ searches' = searches + 1
  /\ qPages' = 0
  /\ qLinks' = 0
  /\ hist' = Append(hist, FormView)
  /\ monthIdx' = monthIdx + 1
  /\ nyPc' = "month"
  /\ NotAborting
  /\ UNCHANGED << count_proceeding_types, countyIdx, attempt, scraped_data, courtCsv,
                  stack, faults, gotoCalls, sleptSeconds, allScraped, completedScopes,
                  saveCalls >>

\* run(), lines 291-334: fill the form, submit, the portal shows a result set:
\* get_attorney_info is called on its first page.
ny_run_search_results ==
  /\ UNCHANGED << portal, ncVars, adVars >>
  /\ nyPc = "fill"
  /\ monthIdx <= DataMonths
  /\ \E np \in 1..portal.pages, nl \in 0..portal.links :
       /\ qPages' = np
       /\ qLinks' = nl
  /\ searches' = searches + 1
  /\ hist' = Append(hist, ResultsView(1))
  /\ stack' = << Frame("gai", ResultsView(1)) >>
  /\ nyPc' = "query"
  /\ NotAborting
  /\ UNCHANGED << count_proceeding_types, countyIdx, monthIdx, attempt, scraped_data,
                  courtCsv, faults, gotoCalls, sleptSeconds, allScraped,
                  completedScopes, saveCalls >>

\* run(), lines 294-311: filling or submitting the form raises.
ny_run_search_fail ==
  /\ UNCHANGED << portal, ncVars, adVars >>
  /\ nyPc = "fill"
  /\ ny_guard("search")
  /\ UNCHANGED << count_proceeding_types, countyIdx, monthIdx, attempt, scraped_data,
                  courtCsv, hist, qPages, qLinks, faults, gotoCalls, sleptSeconds,
                  allScraped, completedScopes, saveCalls, searches >>

\* run(), lines 340-348: the month loop of the scope has ended: flush the batch.
ny_run_scope_end ==
  /\ UNCHANGED << portal, ncVars, adVars >>
  /\ nyPc = "scope_end"
  /\ IF scraped_data # << >>
     THEN /\ courtCsv' = ny_save_to_csv(courtCsv, scraped_data)
          /\ saveCalls' = Append(saveCalls, Scope)
     ELSE UNCHANGED << courtCsv, saveCalls >>
  /\ completedScopes' = completedScopes \cup {Scope}
  /\ countyIdx' = countyIdx + 1
  /\ nyPc' = "county"
  /\ NotAborting
  /\ UNCHANGED << count_proceeding_types, monthIdx, attempt, scraped_data, hist, stack,
                  qPages, qLinks, faults, gotoCalls, sleptSeconds, allScraped,
                  searches >>

\* get_attorney_info, lines 43-65: wait for the table and the first link.
ny_gai_enter ==
  /\ nyPc = "query"
  /\ Top.fn = "gai" /\ Top.st = "enter"
  /\ CASE View.kind # "results" -> ny_return_from_gai(Pop(stack))
       [] View.kind = "results" /\ FileLinkCount(View) = 0 -> ny_raise("TimeoutError")
       [] OTHER -> ny_continue(SetTop([Top EXCEPT !.st = "loop", !.i = 0,
                                                  !.n = FileLinkCount(View)]), hist)
  /\ UNCHANGED << scraped_data, allScraped, faults >>
  /\ nyQueryFrame

InLinkLoop == nyPc = "query" /\ Top.fn = "gai" /\ Top.st = "loop" /\ Top.i < Top.n

\* line 69: current_link.wait_for(state="visible") finds link i on the page shown
LinkVisible == Top.i < FileLinkCount(View)

NextLink == SetTop([Top EXCEPT !.i = @ + 1])

\* get_attorney_info, lines 68-69: wait_for times out (the link is not on the
\* page shown, or the portal is slow), outside any try.
ny_gai_link_timeout ==
  /\ InLinkLoop
  /\ ~LinkVisible \/ faults > 0
  /\ faults' = IF LinkVisible THEN faults - 1 ELSE faults
  /\ ny_raise(IF LinkVisible THEN "TimeoutError" ELSE "LinkNotOnPage")
  /\ UNCHANGED << scraped_data, allScraped >>
  /\ nyQueryFrame

\* get_attorney_info, lines 70-75: the link has no text: continue.
ny_gai_link_no_text ==
  /\ InLinkLoop
  /\ LinkVisible
  /\ faults > 0
  /\ faults' = faults - 1
  /\ ny_continue(NextLink, hist)
  /\ UNCHANGED << scraped_data, allScraped >>
  /\ nyQueryFrame

\* get_attorney_info, lines 78-85: click / navigation fails: continue.
ny_gai_link_click_fail ==
  /\ InLinkLoop
  /\ LinkVisible
  /\ faults > 0
  /\ faults' = faults - 1
  /\ ny_continue(NextLink, hist)
  /\ UNCHANGED << scraped_data, allScraped >>
  /\ nyQueryFrame

\* the history after the except branch of lines 118-122
HistAfterExtractFail(h, detail) == Append(h, detail)

\* get_attorney_info, lines 78-122: the detail page is shown, the extraction
\* raises (no #Court or #FileNumber, on the portal's detail pages or on the
\* page it serves this once): continue.
ny_gai_link_extract_fail ==
  /\ InLinkLoop
  /\ LinkVisible
  /\ ExtractionRaises(portal.detail) \/ faults > 0
  /\ faults' = IF ExtractionRaises(portal.detail) THEN faults ELSE faults - 1
  /\ ny_continue(NextLink, HistAfterExtractFail(hist, DetailView(View.page, Top.i + 1)))
  /\ UNCHANGED << scraped_data, allScraped >>
  /\ nyQueryFrame

\* get_attorney_info, lines 78-138: the detail page is shown and scraped, the
\* record is appended, page.go_back().
ny_gai_link_ok ==
  /\ InLinkLoop
  /\ LinkVisible
  /\ ~ExtractionRaises(portal.detail)
  /\ LET info == AttorneyInfo(View.page, Top.i + 1)
     IN /\ scraped_data' = Append(scraped_data, info)
        /\ allScraped' = Append(allScraped, info)
        /\ ny_continue(NextLink, GoBack(Append(hist, DetailView(View.page, Top.i + 1))))
  /\ UNCHANGED faults
  /\ nyQueryFrame

\* get_attorney_info, lines 140-143: the link loop has ended: get_next_page.
ny_gai_loop_end ==
  /\ nyPc = "query"
  /\ Top.fn = "gai" /\ Top.st = "loop" /\ Top.i >= Top.n
  /\ ny_call("gnp", hist)
  /\ UNCHANGED << scraped_data, allScraped, faults >>
  /\ nyQueryFrame

\* get_next_page, lines 157-168 and 190-195: are there non-active page links?
ny_gnp_enter ==
  /\ nyPc = "query"
  /\ Top.fn = "gnp" /\ Top.st = "enter"
  /\ IF PageLinks(View) # << >>
     THEN ny_continue(SetTop([Top EXCEPT !.st = "loop", !.i = 0,
                                         !.n = Len(PageLinks(View)),
                                         !.origin = View]), hist)
     ELSE ny_return_from_gai(Pop(Pop(stack)))
  /\ UNCHANGED << scraped_data, allScraped, faults >>
  /\ nyQueryFrame

InPageLoop == nyPc = "query" /\ Top.fn = "gnp" /\ Top.st = "loop" /\ Top.i < Top.n

\* line 171: next_page_link.wait_for(state="visible") finds page link i
PageLinkVisible == Top.i < Len(PageLinks(View))

\* get_next_page, lines 170-171: wait_for times out (the page link is not on
\* the page shown, or the portal is slow), outside any try.
ny_gnp_link_timeout ==
  /\ InPageLoop
  /\ ~PageLinkVisible \/ faults > 0
  /\ faults' = IF PageLinkVisible THEN faults - 1 ELSE faults
  /\ ny_raise("TimeoutError")
  /\ UNCHANGED << scraped_data, allScraped >>
  /\ nyQueryFrame

\* get_next_page, lines 178-185: the navigation fails: continue.
ny_gnp_click_fail ==
  /\ InPageLoop
  /\ PageLinkVisible
  /\ faults > 0
  /\ faults' = faults - 1
  /\ ny_continue(NextLink, hist)
  /\ UNCHANGED << scraped_data, allScraped >>
  /\ nyQueryFrame

\* get_next_page, lines 178-187: the page is shown: get_attorney_info on it.
ny_gnp_click_ok ==
  /\ InPageLoop
  /\ PageLinkVisible
  /\ ny_call("gai", Append(hist, ResultsView(PageLinks(View)[Top.i + 1])))
  /\ UNCHANGED << scraped_data, allScraped, faults >>
  /\ nyQueryFrame

\* get_next_page, line 169: the page loop has ended: return, and so does the
\* get_attorney_info that called it (line 143 is its last statement).
ny_gnp_loop_end ==
  /\ nyPc = "query"
  /\ Top.fn = "gnp" /\ Top.st = "loop" /\ Top.i >= Top.n
  /\ ny_return_from_gai(Pop(Pop(stack)))
  /\ UNCHANGED << scraped_data, allScraped, faults >>
  /\ nyQueryFrame

(***************************************************************************)
(* NorthCarolinaScraper.  A string is the sequence of its tokens; << >> is *)
(* the empty string.                                                       *)
(***************************************************************************)
Digits == << "0", "1", "2", "3", "4", "5", "6", "7", "8", "9" >>

\* f"{n:02d}"
TwoDigits(n) == << Digits[(n \div 10) + 1], Digits[(n % 10) + 1] >>

\* run(), lines 58-59: record_number = f"24E00{record_num:02d}*"
RecordNumber(n) == << "24E00" >> \o TwoDigits(n) \o << "*" >>

\* sep.join(parts)
RECURSIVE Join(_, _)
Join(sep, parts) ==
  IF parts = << >> THEN << >>
  ELSE IF Len(parts) = 1 THEN parts[1]
  ELSE parts[1] \o << sep >> \o Join(sep, Tail(parts))

\* [part for part in parts if part]
NonEmpty(parts) == SelectSeq(parts, LAMBDA part : part # << >>)

\* get_attorney_info, lines 345-378: one address as a string.
FormatAddress(address) ==
  LET city == address.City
      state == address.State
      postal_code == address.PostalCode
      location_parts == NonEmpty(<< city, state, postal_code >>)
      location_block ==
        IF location_parts # << >>
        THEN Join(", ", << city, Join(" ", << state, postal_code >>) >>)
        ELSE << >>
      clean_parts == NonEmpty(<< address.AddressLine1, address.AddressLine2,
                                 address.AddressLine3, address.AddressLine4,
                                 location_block >>)
  IN Join(", ", clean_parts)

\* get_attorney_info, lines 338-386: the entry built for one attorney.
AttorneyEntry(info) ==
  [AttorneyName |-> info.FormattedName,
   AttorneyAddress |-> [k \in 1..Len(info.Addresses) |-> FormatAddress(info.Addresses[k])]]

AddAttorney_keep_last(attorneys, info) ==
  IF \E k \in 1..Len(attorneys) : attorneys[k].AttorneyName = info.FormattedName
  THEN [k \in 1..Len(attorneys) |->
          IF attorneys[k].AttorneyName = info.FormattedName
          THEN AttorneyEntry(info) ELSE attorneys[k]]
  ELSE Append(attorneys, AttorneyEntry(info))

\* get_attorney_info, lines 387-391: append unless the name is already there.
AddAttorney(attorneys, info) ==
  IF \E k \in 1..Len(attorneys) : attorneys[k].AttorneyName = info.FormattedName
  THEN attorneys
  ELSE Append(attorneys, AttorneyEntry(info))

\* get_attorney_info, line 337: for info in attorney_info
RECURSIVE AddAll(_, _)
AddAll(attorneys, infos) ==
  IF infos = << >> THEN attorneys
  ELSE AddAll(AddAttorney(attorneys, Head(infos)), Tail(infos))

\* get_attorney_info, line 335: if len(attorney_info) > attorney_info_len
TakesParty(party, attorney_info_len) == Len(party) > attorney_info_len

\* get_attorney_info, lines 332-391: for party in all_parties
RECURSIVE ScanParties(_, _, _)
ScanParties(all_parties, attorney_info_len, attorneys) ==
  IF all_parties = << >> THEN attorneys
  ELSE LET party == Head(all_parties)
       IN IF party # << >> /\ TakesParty(party, attorney_info_len)
          THEN ScanParties(Tail(all_parties), Len(party), AddAll(attorneys, party))
          ELSE ScanParties(Tail(all_parties), attorney_info_len, attorneys)

\* get_attorney_info, lines 329-393, on the Parties of the answer; a party is
\* its CasePartyAttorneys list.
nc_attorneys(all_parties) == ScanParties(all_parties, 0, << >>)

\* get_pdf_files, line 222: "Bond" in event_name
IsBond(event_name) == \E k \in 1..Len(event_name) : event_name[k] = "Bond"

\* get_pdf_files, lines 240-241: "/" to "-Or-", " " to "_"
FormattedFileName(event_name) ==
  [k \in 1..Len(event_name) |->
     IF event_name[k] = "/" THEN "-Or-"
     ELSE IF event_name[k] = " " THEN "_" ELSE event_name[k]]

\* a membership test that never finds the element
InSeq_never(x, seq) == FALSE

InSeq(x, seq) == \E k \in 1..Len(seq) : seq[k] = x

\* _get_max_attorneys_in_batch, lines 403-408
RECURSIVE get_max_attorneys_in_batch(_)
get_max_attorneys_in_batch(items) ==
  IF items = << >> THEN 0
  ELSE LET rest == get_max_attorneys_in_batch(Tail(items))
           n == Len(Head(items).AttorneyInfo)
       IN IF n > rest THEN n ELSE rest

\* save_to_csv, lines 427-428: "Attorney Name i", "Attorney Address i"
RECURSIVE AttorneyHeaders(_)
AttorneyHeaders(n) ==
  IF n = 0 THEN << >>
  ELSE AttorneyHeaders(n - 1)
       \o << << "Attorney Name ", Digits[n + 1] >>, << "Attorney Address ", Digits[n + 1] >> >>

\* save_to_csv, lines 444-447
RECURSIVE FlattenAttorneys(_)
FlattenAttorneys(infos) ==
  IF infos = << >> THEN << >>
  ELSE << << Head(infos).AttorneyName >>, Head(infos).AttorneyAddress >>
       \o FlattenAttorneys(Tail(infos))

CsvRow_unpadded(item, required_attorney_cols) ==
  << item.CaseNumber, item.CaseType, item.PDFFile >> \o
  [k \in 1..(2 * Len(item.AttorneyInfo)) |->
     IF k % 2 = 1 THEN << item.AttorneyInfo[(k + 1) \div 2].AttorneyName >>
     ELSE item.AttorneyInfo[k \div 2].AttorneyAddress]

\* save_to_csv, lines 435-454: the row of one record
CsvRow(item, required_attorney_cols) ==
  LET flattened_attorneys == FlattenAttorneys(item.AttorneyInfo)
      padding_needed == required_attorney_cols - Len(flattened_attorneys)
  IN << item.CaseNumber, item.CaseType, item.PDFFile >>
     \o flattened_attorneys
     \o [k \in 1..padding_needed |-> << >>]

nc_save_without_first(file, items) ==
  [exists |-> TRUE,
   rows |-> << << << "Case Number" >>, << "Case Type" >>, << "PDF File" >> >> >>
            \o [k \in 1..(Len(items) - 1) |-> CsvRow(items[k + 1], 0)]]

\* NorthCarolinaScraper.save_to_csv, lines 419-461: the file is rewritten.
nc_save_to_csv(file, items) ==
  LET attorney_headers == AttorneyHeaders(get_max_attorneys_in_batch(items))
      final_headers == << << "Case Number" >>, << "Case Type" >>, << "PDF File" >> >>
                       \o attorney_headers
  IN [exists |-> TRUE,
      rows |-> << final_headers >>
               \o [k \in 1..Len(items) |-> CsvRow(items[k], Len(attorney_headers))]]

ncRunV == << record_num, ncRows, ncGrid, ncSearched, ncSteps, captcha_token >>
ncCaseV == << caseIdx, check_case_type, attorney_info >>
ncPdfV == << all_case_events, evIdx, linkIdx, dlAttempt, files_downloaded, pdf_found,
             dlResults, ncFileLog >>
ncOutV == << nc_scraped_data, ncAllScraped, ncCsv, ncSaveCalls >>
ncEndV == << ncExit, ncFatalLogged, ncCause >>
ncMenuV == << ncPartiesMenu, ncEventsMenu, ncTotalsMenu >>

\* an exception nothing catches: run() has no guard, the interpreter prints the
\* traceback and exits with status 1.
nc_uncaught(cause) ==
  /\ ncPc' = "crashed"
  /\ ncExit' = 1
  /\ ncCause' = cause
  /\ UNCHANGED ncFatalLogged

\* run(), lines 49-55: launch the browser, open the search page.
nc_run_start ==
  /\ ncPc = "start"
  /\ ncPc' = "search"
  /\ UNCHANGED << ncRunV, ncCaseV, ncPdfV, ncOutV, ncEndV, ncMenuV, nyVars, adVars >>

\* run(), lines 50-54: the launch or the goto raises.
nc_run_start_fail ==
  /\ ncPc = "start"
  /\ nc_uncaught("startup")
  /\ UNCHANGED << ncRunV, ncCaseV, ncPdfV, ncOutV, ncMenuV, nyVars, adVars >>

\* solve_recaptcha_v2, lines 23-32: the token of 2Captcha, or None after any
\* exception of the solver call
solve_recaptcha_v2 == {"token", "None"}

Step(op, query) == [op |-> op, query |-> query]

\* the loop body with the submit click moved before the token is written
IterationSteps_click_first(record) ==
  << Step("site_key", record), Step("fill", record), Step("click", record),
     Step("solve", record), Step("inject", record) >>

\* run(), lines 61-80: what one iteration does to the page and the solver
\* for record number `record`: data-sitekey read (64), record number filled
\* (68), solve_recaptcha_v2(url, data_site_key) (69), the token written into
\* #g-recaptcha-response (72-74), #btnSSSubmit clicked (76-79)
IterationSteps(record) ==
  << Step("site_key", record), Step("fill", record), Step("solve", record),
     Step("inject", record), Step("click", record) >>

\* the operations of the last iteration, after the searches `searched`
SearchLog(searched) ==
  IF searched = << >> THEN << >> ELSE IterationSteps(searched[Len(searched)])

\* run(), lines 58-86: site-key, record number, token, submit.
nc_run_search ==
  /\ ncPc = "search"
  /\ \E token \in solve_recaptcha_v2 : captcha_token' = token
  /\ ncSteps' = IterationSteps(record_num)
  /\ ncSearched' = Append(ncSearched, record_num)
  /\ record_num' = record_num + 2
  /\ ncPc' = "await"
  /\ UNCHANGED << ncRows, ncGrid, ncCaseV, ncPdfV, ncOutV, ncEndV, ncMenuV, nyVars, adVars >>

\* run(), lines 64-80: no .g-recaptcha element, or the fill, the evaluate or
\* the click raises: the iteration ends at that operation.  The solver call
\* raises nothing (lines 26-32).
nc_run_search_fail ==
  /\ ncPc = "search"
  /\ nc_uncaught("search")
  /\ \E failed \in {1, 2, 4, 5} :
       ncSteps' = SubSeq(IterationSteps(record_num), 1, failed)
  /\ UNCHANGED << record_num, ncRows, ncGrid, ncSearched, captcha_token, ncCaseV, ncPdfV,
                  ncOutV, ncMenuV, nyVars, adVars >>

\* the message handled with `continue` in place of `break`
nc_run_no_cases_next_query ==
  /\ ncPc = "await"
  /\ Len(ncSearched) <= MaxQueries
  /\ captcha_token = "token"
  /\ captcha_token' = "spent"
  /\ ncPc' = "search"
  /\ UNCHANGED << record_num, ncRows, ncGrid, ncSearched, ncSteps, ncCaseV, ncPdfV, ncOutV, ncEndV, ncMenuV,
                  nyVars, adVars >>

\* run(), lines 88-100: "No cases match your search": leave the loop.  The
\* portal answers a search only when the reCAPTCHA response it is sent is a
\* token of the solver.
nc_run_no_cases ==
  /\ ncPc = "await"
  /\ captcha_token = "token"
  /\ captcha_token' = "spent"
  /\ ncPc' = "save"
  /\ UNCHANGED << record_num, ncRows, ncGrid, ncSearched, ncSteps, ncCaseV, ncPdfV, ncOutV, ncEndV, ncMenuV,
                  nyVars, adVars >>

\* run(), lines 89 and 102: the message or the grid rows never show, as when
\* the response injected at lines 72-74 is the text 'None'.
nc_run_await_timeout ==
  /\ ncPc = "await"
  /\ nc_uncaught("TimeoutError")
  /\ UNCHANGED << ncRunV, ncCaseV, ncPdfV, ncOutV, ncMenuV, nyVars, adVars >>

\* run(), line 111: option_selector = 'li:has-text("200")'
PageSizeOption == 200

NoGrid == [total |-> 0, dropdown |-> FALSE, size |-> 0]

Min(a, b) == IF a <= b THEN a ELSE b

\* run(), lines 104-131: what #CasesGrid shows when line 132 reads it. The
\* page-size dropdown is there when the result set has more rows than one
\* page. The click on the "200" option (lines 118-120) returns at once and the
\* grid is redrawn by the page's own script: line 132 follows with no wait, so
\* it reads the grid either before or after the redraw.
GridsRead(total) ==
  LET dropdown == total > DefaultPageSize
  IN { [total |-> total, dropdown |-> dropdown, size |-> size] :
         size \in IF dropdown THEN { DefaultPageSize, PageSizeOption }
                  ELSE { DefaultPageSize } }

\* run(), lines 102-136: the grid shows: page size, rows, scrape_cases.
nc_run_cases ==
  /\ ncPc = "await"
  /\ Len(ncSearched) <= MaxQueries
  /\ captcha_token = "token"
  /\ captcha_token' = "spent"
  /\ \E total \in ncTotalsMenu : \E grid \in GridsRead(total) :
       /\ ncGrid' = grid
       /\ ncRows' = Min(grid.total, grid.size)
  /\ caseIdx' = 1
  /\ ncPc' = "case_type"
  /\ UNCHANGED << record_num, ncSearched, ncSteps, check_case_type, attorney_info, ncPdfV, ncOutV,
                  ncEndV, ncMenuV, nyVars, adVars >>

InCase == ncPc = "case_type" /\ caseIdx <= ncRows

\* scrape_cases, line 175: if check_case_type == "Decedents' Estate - Small Estate"
IsExcluded(description) == description = << "Decedents' Estate - Small Estate" >>

\* scrape_cases, lines 155-179: the case type is looked up.
nc_case_type ==
  /\ InCase
  /\ \E description \in { << "Decedents' Estate - Small Estate" >>,
                         << "Decedents' Estate" >> } :
       /\ check_case_type' = description
       /\ IF IsExcluded(description)
          THEN caseIdx' = caseIdx + 1 /\ UNCHANGED ncPc
          ELSE ncPc' = "case_attorney" /\ UNCHANGED caseIdx
  /\ UNCHANGED << ncRunV, attorney_info, ncPdfV, ncOutV, ncEndV, ncMenuV, nyVars, adVars >>

\* scrape_cases, lines 167-174: the request raises, the body is no JSON, or
\* CaseInformation is null: nothing catches it.
nc_case_type_fail ==
  /\ InCase
  /\ nc_uncaught("case_type")
  /\ UNCHANGED << ncRunV, ncCaseV, ncPdfV, ncOutV, ncMenuV, nyVars, adVars >>

\* scrape_cases returns; run(), lines 137-142: page.go_back().
nc_cases_end ==
  /\ ncPc = "case_type"
  /\ caseIdx > ncRows
  /\ ncPc' = "search"
  /\ UNCHANGED << ncRunV, ncCaseV, ncPdfV, ncOutV, ncEndV, ncMenuV, nyVars, adVars >>

\* get_attorney_info, lines 324-393: the Parties API answers.
nc_get_attorney_info ==
  /\ ncPc = "case_attorney"
  /\ \E all_parties \in ncPartiesMenu : attorney_info' = nc_attorneys(all_parties)
  /\ ncPc' = "case_pdf"
  /\ UNCHANGED << ncRunV, caseIdx, check_case_type, ncPdfV, ncOutV, ncEndV, ncMenuV,
                  nyVars, adVars >>

\* get_attorney_info, lines 394-396: requests.RequestException: return [].
nc_get_attorney_info_request_error ==
  /\ ncPc = "case_attorney"
  /\ attorney_info' = << >>
  /\ ncPc' = "case_pdf"
  /\ UNCHANGED << ncRunV, caseIdx, check_case_type, ncPdfV, ncOutV, ncEndV, ncMenuV,
                  nyVars, adVars >>

\* get_attorney_info, lines 329-332: "Parties" is null: TypeError, not caught.
nc_get_attorney_info_type_error ==
  /\ ncPc = "case_attorney"
  /\ nc_uncaught("parties")
  /\ UNCHANGED << ncRunV, ncCaseV, ncPdfV, ncOutV, ncMenuV, nyVars, adVars >>

\* get_pdf_files, lines 206-217: the CaseEvents API answers.
nc_pdf_request ==
  /\ ncPc = "case_pdf"
  /\ \E events \in ncEventsMenu : all_case_events' = events
  /\ evIdx' = 1
  /\ linkIdx' = 1
  /\ dlAttempt' = 0
  /\ files_downloaded' = << >>
  /\ pdf_found' = FALSE
  /\ dlResults' = << >>
  /\ ncFileLog' = << >>
  /\ ncPc' = "pdf_event"
  /\ UNCHANGED << ncRunV, ncCaseV, ncOutV, ncEndV, ncMenuV, nyVars, adVars >>

\* get_pdf_files, lines 208-212 and 281-285: RequestException: return False.
nc_pdf_request_error ==
  /\ ncPc = "case_pdf"
  /\ pdf_found' = FALSE
  /\ dlResults' = << >>
  /\ ncFileLog' = << >>
  /\ ncPc' = "case_append"
  /\ UNCHANGED << ncRunV, ncCaseV, all_case_events, evIdx, linkIdx, dlAttempt,
                  files_downloaded, ncOutV, ncEndV, ncMenuV, nyVars, adVars >>

Event == all_case_events[evIdx]

InEvent == ncPc = "pdf_event" /\ evIdx <= Len(all_case_events)

\* the case number the grid shows in row i of the result of the last search
CaseNumber(i) ==
  << "24E00" >> \o TwoDigits(ncSearched[Len(ncSearched)]) \o << "-", Digits[i + 1] >>

\* an entry of ncFileLog for the file of the event at hand
FileEntry(kind) ==
  [kind |-> kind, case_no |-> CaseNumber(caseIdx),
   file |-> FormattedFileName(Event.Description)]

\* download_file, lines 300-304: open(filepath, "wb") has created or emptied
\* the file of the event at hand; `complete` tells whether every chunk was
\* written to it before the `with` block was left
OpenEntry(complete) ==
  [kind |-> "open", case_no |-> CaseNumber(caseIdx),
   file |-> FormattedFileName(Event.Description), complete |-> complete]

\* get_pdf_files, lines 218-257: one case event, up to its parent links.
nc_pdf_event ==
  /\ InEvent
  /\ Event.hasDescription
  /\ IF IsBond(Event.Description) /\ Event.Documents > 0
     THEN IF InSeq(FormattedFileName(Event.Description), files_downloaded)
          THEN /\ ncFileLog' = Append(ncFileLog, FileEntry("skip"))
               /\ evIdx' = evIdx + 1
               /\ UNCHANGED << files_downloaded, linkIdx, dlAttempt, ncPc >>
          ELSE /\ files_downloaded' =
                    Append(files_downloaded, FormattedFileName(Event.Description))
               /\ linkIdx' = 1
               /\ dlAttempt' = 0
               /\ ncPc' = "pdf_links"
               /\ UNCHANGED << evIdx, ncFileLog >>
     ELSE /\ evIdx' = evIdx + 1
          /\ UNCHANGED << files_downloaded, linkIdx, dlAttempt, ncPc, ncFileLog >>
  /\ UNCHANGED << ncRunV, ncCaseV, all_case_events, pdf_found, dlResults, ncOutV, ncEndV,
                  ncMenuV, nyVars, adVars >>

\* get_pdf_files, lines 219-222: the event has no TypeId description:
\* "Bond" in None is a TypeError, not caught.
nc_pdf_event_type_error ==
  /\ InEvent
  /\ ~Event.hasDescription
  /\ nc_uncaught("events")
  /\ UNCHANGED << ncRunV, ncCaseV, ncPdfV, ncOutV, ncMenuV, nyVars, adVars >>

InLinks == ncPc = "pdf_links" /\ linkIdx <= Event.ParentLinks

\* get_pdf_files, line 258: no parent link is left.
nc_pdf_links_end ==
  /\ ncPc = "pdf_links"
  /\ linkIdx > Event.ParentLinks
  /\ evIdx' = evIdx + 1
  /\ ncPc' = "pdf_event"
  /\ UNCHANGED << ncRunV, ncCaseV, all_case_events, linkIdx, dlAttempt, files_downloaded,
                  pdf_found, dlResults, ncFileLog, ncOutV, ncEndV, ncMenuV, nyVars, adVars >>

\* get_pdf_files, line 266: pdf_found = self.download_file(...)
FoundAfterDownload(found_before, downloaded) == downloaded

\* a successful download after which the next parent link is tried
nc_download_ok_next_link ==
  /\ InLinks
  /\ pdf_found' = TRUE
  /\ dlResults' = Append(dlResults, TRUE)
  /\ ncFileLog' = Append(ncFileLog, OpenEntry(TRUE))
  /\ linkIdx' = linkIdx + 1
  /\ dlAttempt' = 0
  /\ UNCHANGED << ncRunV, ncCaseV, all_case_events, evIdx, files_downloaded, ncPc,
                  ncOutV, ncEndV, ncMenuV, nyVars, adVars >>

\* download_file, lines 296-305, and get_pdf_files, lines 266-270: the file is
\* written, True is returned, no further parent link is tried.
nc_download_ok ==
  /\ InLinks
  /\ pdf_found' = FoundAfterDownload(pdf_found, TRUE)
  /\ dlResults' = Append(dlResults, TRUE)
  /\ ncFileLog' = Append(ncFileLog, OpenEntry(TRUE))
  /\ evIdx' = evIdx + 1
  /\ ncPc' = "pdf_event"
  /\ UNCHANGED << ncRunV, ncCaseV, all_case_events, linkIdx, dlAttempt, files_downloaded,
                  ncOutV, ncEndV, ncMenuV, nyVars, adVars >>

\* download_file, lines 297-304: the exception comes from requests.get, before
\* the file is opened, or from iter_content, after it
OpenedBeforeError ==
  \/ UNCHANGED ncFileLog
  \/ ncFileLog' = Append(ncFileLog, OpenEntry(FALSE))

\* download_file, lines 306-314: a connection or chunked-encoding error: the
\* next attempt, or False after the last one and the next parent link.
nc_download_conn_error ==
  /\ InLinks
  /\ OpenedBeforeError
  /\ IF dlAttempt + 1 < retries
     THEN /\ dlAttempt' = dlAttempt + 1
          /\ UNCHANGED << pdf_found, dlResults, linkIdx >>
     ELSE /\ dlAttempt' = 0
          /\ pdf_found' = FoundAfterDownload(pdf_found, FALSE)
          /\ dlResults' = Append(dlResults, FALSE)
          /\ linkIdx' = linkIdx + 1
  /\ UNCHANGED << ncRunV, ncCaseV, all_case_events, evIdx, files_downloaded, ncPc, ncOutV,
                  ncEndV, ncMenuV, nyVars, adVars >>

\* download_file, lines 298-299: an HTTP error status or a timeout is a
\* RequestException download_file does not catch; get_pdf_files, lines
\* 281-285, returns False.
nc_download_http_error ==
  /\ InLinks
  /\ OpenedBeforeError
  /\ pdf_found' = FALSE
  /\ ncPc' = "case_append"
  /\ UNCHANGED << ncRunV, ncCaseV, all_case_events, evIdx, linkIdx, dlAttempt,
                  files_downloaded, dlResults, ncOutV, ncEndV, ncMenuV, nyVars, adVars >>

\* download_file, line 300: open() raises OSError: nothing catches it.
nc_download_os_error ==
  /\ InLinks
  /\ nc_uncaught("download")
  /\ UNCHANGED << ncRunV, ncCaseV, ncPdfV, ncOutV, ncMenuV, nyVars, adVars >>

\* get_pdf_files, lines 275-279: return pdf_found.
nc_pdf_return ==
  /\ ncPc = "pdf_event"
  /\ evIdx > Len(all_case_events)
  /\ ncPc' = "case_append"
  /\ UNCHANGED << ncRunV, ncCaseV, ncPdfV, ncOutV, ncEndV, ncMenuV, nyVars, adVars >>

\* scrape_cases, lines 183-188
NewDict ==
  [CaseNumber |-> CaseNumber(caseIdx),
   CaseType |-> check_case_type,
   AttorneyInfo |-> attorney_info,
   PDFFile |-> IF pdf_found THEN << "Found" >> ELSE << "Not Found" >>]

\* scrape_cases, lines 183-194: the record is appended.
nc_case_append ==
  /\ ncPc = "case_append"
  /\ nc_scraped_data' = Append(nc_scraped_data, NewDict)
  /\ ncAllScraped' = Append(ncAllScraped, NewDict)
  /\ caseIdx' = caseIdx + 1
  /\ ncPc' = "case_type"
  /\ UNCHANGED << ncRunV, check_case_type, attorney_info, ncPdfV, ncCsv, ncSaveCalls,
                  ncEndV, ncMenuV, nyVars, adVars >>

\* run(), line 144: self.save_to_csv(self.scraped_data), then the process ends.
nc_run_save ==
  /\ ncPc = "save"
  /\ ncCsv' = nc_save_to_csv(ncCsv, nc_scraped_data)
  /\ ncSaveCalls' = ncSaveCalls + 1
  /\ ncPc' = "done"
  /\ ncExit' = 0
  /\ UNCHANGED << ncRunV, ncCaseV, ncPdfV, nc_scraped_data, ncAllScraped, ncFatalLogged,
                  ncCause, ncMenuV, nyVars, adVars >>

(***************************************************************************)
(* What the NC portal may answer.                                          *)
(***************************************************************************)
NoAddress == << >>

OneAddress ==
  << [AddressLine1 |-> << "1 Main St" >>, AddressLine2 |-> << >>,
      AddressLine3 |-> << >>, AddressLine4 |-> << >>,
      City |-> << "Raleigh" >>, State |-> << "NC" >>, PostalCode |-> << "27601" >>] >>

AttorneyNames == {"A", "B"}

\* attorney A with and without an address, attorney B without one
Attorneys ==
  [FormattedName : AttorneyNames, Addresses : {NoAddress, OneAddress}]
  \ { [FormattedName |-> "B", Addresses |-> OneAddress] }

\* all sequences over S of length 0..n
RECURSIVE SeqsUpTo(_, _)
SeqsUpTo(S, n) ==
  IF n = 0 THEN {<< >>}
  ELSE LET shorter == SeqsUpTo(S, n - 1)
       IN shorter \cup {Append(q, x) : q \in {r \in shorter : Len(r) = n - 1}, x \in S}

\* the Parties payloads of at most n parties
AllParties(n) == SeqsUpTo(SeqsUpTo(Attorneys, MaxAttorneys), n)

EventNames == { << "Bond" >>, << "Bond", "/", "Rider" >>, << "Order" >> }

Events ==
  [hasDescription : {TRUE}, Description : EventNames, Documents : {1},
   ParentLinks : 0..MaxParentLinks]
  \cup [hasDescription : {TRUE}, Description : EventNames \ {<< "Order" >>},
        Documents : {0}, ParentLinks : {0}]
  \cup [hasDescription : {FALSE}, Description : {<< >>}, Documents : {0},
        ParentLinks : {0}]

\* the Events payloads of at most n events
AllEvents(n) == SeqsUpTo(Events, n)

\* the answers served during a whole run (SpecNC)
RunParties ==
  { << << [FormattedName |-> "A", Addresses |-> OneAddress] >> >> }

RunEvents ==
  { << [hasDescription |-> TRUE, Description |-> << "Bond" >>, Documents |-> 1,
        ParentLinks |-> 1] >>,
    << [hasDescription |-> FALSE, Description |-> << >>, Documents |-> 0,
        ParentLinks |-> 0] >> }

(***************************************************************************)
(* AttorneyDetailsScraper.run.  The constructor reads self.api_key, which  *)
(* the class never assigns; run() is modelled for an instance that has it. *)
(***************************************************************************)
\* run(), lines 85-88: connect over CDP, read the attorney list, open the form.
ad_run_start ==
  /\ adPc = "start"
  /\ adPc' = "loop"
  /\ UNCHANGED << adIdx, adCsv, adExit, adFatalLogged, savesDone, adInputV, adStepV, nyVars, ncVars >>

\* run(), lines 238-239: the guard of run() logs "FATAL ERROR" and run()
\* returns: the process ends with status 0.
ad_guard ==
  /\ adPc' = "returned"
  /\ adFatalLogged' = TRUE
  /\ adExit' = 0

\* run(), lines 85-88: the connection, the CSV read or the goto raises.
ad_run_start_fail ==
  /\ adPc = "start"
  /\ ad_guard
  /\ UNCHANGED << adIdx, adCsv, savesDone, adInputV, adStepV, nyVars, ncVars >>

(***************************************************************************)
(* Names and link texts.  A text is the sequence of its pieces between     *)
(* single spaces (an empty piece stands between two adjacent spaces); a    *)
(* piece is the sequence of its words and commas.  'Smith, John' is        *)
(* << <<"Smith", ",">>, <<"John">> >>.                                     *)
(***************************************************************************)
\* str.upper() on one word
UpperWord(w) ==
  CASE w = "John" -> "JOHN" [] w = "Smith" -> "SMITH" [] w = "Robert" -> "ROBERT"
    [] w = "Jones" -> "JONES" [] w = "Maria" -> "MARIA" [] w = "Cruz" -> "CRUZ"
    [] w = "Connor" -> "CONNOR" [] w = "O'Connor" -> "O'CONNOR" [] w = "Jr" -> "JR"
    [] w = "De" -> "DE" [] w = "La" -> "LA" [] w = "Ann" -> "ANN"
    [] OTHER -> w

\* str.upper() on a piece
Upper(piece) == [k \in 1..Len(piece) |-> UpperWord(piece[k])]

\* run(), lines 90-106
suffixes_and_prefixes ==
  { << "JR" >>, << "SR" >>, << "II" >>, << "III" >>, << "IV" >>, << "V" >>, << "ESQ" >>,
    << "ESQUIRE" >>, << "VAN" >>, << "DE" >>, << "DEL" >>, << "DI" >>, << "LA" >>,
    << "ST" >>, << "VON" >> }

\* run(), lines 115-116: attorney.replace("O Connor", "O'Connor")
RECURSIVE RewriteOConnor(_)
RewriteOConnor(attorney) ==
  IF Len(attorney) < 2 THEN attorney
  ELSE LET p == attorney[1]
           q == attorney[2]
       IN IF p # << >> /\ q # << >> /\ p[Len(p)] = "O" /\ q[1] = "Connor"
          THEN RewriteOConnor(<< SubSeq(p, 1, Len(p) - 1) \o << "O'Connor" >> \o Tail(q) >>
                              \o SubSeq(attorney, 3, Len(attorney)))
          ELSE << p >> \o RewriteOConnor(Tail(attorney))

\* the filter without the suffix test
CleanedName_keeps_particles(attorney) ==
  SelectSeq(attorney, LAMBDA p : p # << >>)

\* run(), lines 117-123: attorney.split(" ") and the filter
\* "if p.strip() and p.upper() not in suffixes_and_prefixes"
CleanedName(attorney) ==
  SelectSeq(attorney, LAMBDA p : p # << >> /\ Upper(p) \notin suffixes_and_prefixes)

\* run(), lines 112-131: first_name, middle_name, last_name
NameParts(cleaned) ==
  IF Len(cleaned) = 2
  THEN [first |-> cleaned[1], middle |-> << >>, last |-> cleaned[2]]
  ELSE IF Len(cleaned) = 3 \/ Len(cleaned) = 4
  THEN [first |-> cleaned[1], middle |-> cleaned[2], last |-> cleaned[3]]
  ELSE [first |-> << >>, middle |-> << >>, last |-> << >>]

\* the comma-free runs of a piece: piece.replace(",", " ").split()
RECURSIVE CommaRuns(_, _)
CommaRuns(piece, run) ==
  IF piece = << >> THEN (IF run = << >> THEN {} ELSE {run})
  ELSE IF Head(piece) = ","
  THEN (IF run = << >> THEN {} ELSE {run}) \cup CommaRuns(Tail(piece), << >>)
  ELSE CommaRuns(Tail(piece), Append(run, Head(piece)))

\* run(), lines 187 and 191: set(search_name_upper.split())
attorney_name_parts(attorney) ==
  {Upper(attorney[k]) : k \in 1..Len(attorney)} \ {<< >>}

\* run(), lines 190 and 192: set(link_text.replace(",", " ").split())
link_text_parts(link_text) ==
  UNION {CommaRuns(Upper(link_text[k]), << >>) : k \in 1..Len(link_text)}

\* run(), lines 183-195: the index of target_link in links, 0 for None
TargetLink(attorney, links) ==
  LET matching == {k \in 1..Len(links) :
                     attorney_name_parts(attorney) = link_text_parts(links[k])}
  IN IF matching = {} THEN 0 ELSE CHOOSE k \in matching : \A m \in matching : k <= m

InAttorneyLoop == adPc = "loop" /\ adIdx <= Len(attorneys_list)

\* run(), lines 112-131: the names of the attorney at hand
ad_normalize ==
  LET attorney == RewriteOConnor(attorneys_list[adIdx])
  IN /\ cleaned_name' = CleanedName(attorney)
     /\ first_name' = NameParts(CleanedName(attorney)).first
     /\ middle_name' = NameParts(CleanedName(attorney)).middle
     /\ last_name' = NameParts(CleanedName(attorney)).last

\* run(), lines 183-203: the link chosen among `links`
ad_choose(links) ==
  LET target_link == TargetLink(RewriteOConnor(attorneys_list[adIdx]), links)
  IN /\ adLinks' = links
     /\ adClicked' = IF target_link # 0 THEN target_link ELSE 1
     /\ adWarned' = (target_link = 0)

EmptyForm == [first |-> << >>, middle |-> << >>, last |-> << >>]

\* run(), lines 133-160: the first-name input is cleared and typed only when
\* first_name is set; the last- and middle-name inputs are always cleared
FilledForm(form, parts) ==
  [first |-> IF parts.first # << >> THEN parts.first ELSE form.first,
   middle |-> parts.middle,
   last |-> parts.last]

\* run(), lines 133-169: the inputs are filled and the search button is
\* clicked, whatever the h-captcha widget shows
ad_submit ==
  /\ adSubmitted' =
       FilledForm(adForm, NameParts(CleanedName(RewriteOConnor(attorneys_list[adIdx]))))
  /\ \E widget \in adCaptchaMenu : adCaptcha' = widget

\* extract_attorney_details, lines 253-258: the keys of target_fields
target_fields == { "Estate Attorney", "Email", "Address", "Phone" }

\* one field of an attorney detail page: is its label span there, is the
\* CONT_Cell span after it there, and the text of that cell
ProfileField(label, cell, text) == [label |-> label, cell |-> cell, text |-> text]

\* the detail pages: every field with its label and cell, without the cell,
\* or without the label
ProfilePages ==
  [target_fields -> { ProfileField(TRUE, TRUE, << "text" >>),
                      ProfileField(TRUE, FALSE, << >>),
                      ProfileField(FALSE, FALSE, << >>) }]

CompleteProfile == [key \in target_fields |-> ProfileField(TRUE, TRUE, << "text" >>)]

\* extract_attorney_details, lines 262-274: the text of the cell after the
\* label, "" without the label or without the cell
extract_attorney_details(response) ==
  [key \in target_fields |->
     IF response[key].label
     THEN IF response[key].cell THEN response[key].text ELSE << >>
     ELSE << >>]

\* save_to_csv, lines 303-310: the row written for one item
AdRow(item) ==
  << item["Estate Attorney"], item["Email"], item["Address"], item["Phone"] >>

\* the inputs of the form page shown next: the browser or the portal keeps
\* the text typed, or shows them empty
ad_form_shown == adForm' \in {adSubmitted', EmptyForm}

\* run(), lines 110-227: the attorney is found, the details tab is read and
\* closed, the main page goes back, and the one record is saved.
ad_attorney_saved ==
  /\ InAttorneyLoop
  /\ ad_normalize
  /\ ad_submit
  /\ \E links \in adLinkMenu : ad_choose(links)
  /\ adBrowser' = [view |-> "form", tabs |-> adBrowser.tabs]
  /\ ad_form_shown
  /\ adOutcome' = "saved"
  /\ adExtracted' = adExtracted + 1
  /\ \E response \in adPageMenu :
       adCsv' = ad_save_to_csv(adCsv, << AdRow(extract_attorney_details(response)) >>)
  /\ adIdx' = adIdx + 1
  /\ UNCHANGED << adPc, adExit, adFatalLogged, savesDone, adInputV, nyVars, ncVars >>

\* run(), lines 172-181: "Your Attorney search returned no results.": continue.
ad_attorney_no_results ==
  /\ InAttorneyLoop
  /\ ad_normalize
  /\ ad_submit
  /\ adLinks' = << >>
  /\ adClicked' = 0
  /\ adWarned' = FALSE
  /\ adBrowser' = [view |-> "form", tabs |-> adBrowser.tabs]
  /\ ad_form_shown
  /\ adOutcome' = "no_results"
  /\ UNCHANGED adExtracted
  /\ adIdx' = adIdx + 1
  /\ UNCHANGED << adPc, adCsv, adExit, adFatalLogged, savesDone, adInputV, nyVars, ncVars >>

\* run(), lines 229-231: any Exception of the attorney's step: log, continue.
\* It is raised by an input that the page does not show (lines 134-155),
\* after the click on search and before the links are read (lines 169-184),
\* or after the click on a link (lines 205-222): before the detail tab is
\* read (lines 205-215), or by new_page.close() or page.go_back() after
\* extract_attorney_details has returned (lines 216-222).  What raised is
\* not run again and save_to_csv (line 224) is not reached.
ad_attorney_error ==
  /\ InAttorneyLoop
  /\ ad_normalize
  /\ \/ /\ adBrowser.view # "form"
        /\ adLinks' = << >> /\ adClicked' = 0 /\ adWarned' = FALSE
        /\ adCaptcha' = "not_reached"
        /\ UNCHANGED << adForm, adSubmitted, adBrowser, adExtracted >>
     \/ /\ ad_submit
        /\ adLinks' = << >> /\ adClicked' = 0 /\ adWarned' = FALSE
        /\ adForm' = adSubmitted'
        /\ \E view \in {"form", "other"} :
             adBrowser' = [view |-> view, tabs |-> adBrowser.tabs]
        /\ UNCHANGED adExtracted
     \/ /\ ad_submit
        /\ \E links \in adLinkMenu : ad_choose(links)
        /\ adForm' = adSubmitted'
        /\ \E opened \in {0, 1} :
             adBrowser' = [view |-> "results", tabs |-> adBrowser.tabs + opened]
        /\ \E extracted \in {0, 1} : adExtracted' = adExtracted + extracted
  /\ adOutcome' = "error"
  /\ adIdx' = adIdx + 1
  /\ UNCHANGED << adPc, adCsv, adExit, adFatalLogged, savesDone, adInputV, nyVars, ncVars >>

\* run(), lines 233-238: the list is exhausted, run() returns.
ad_run_end ==
  /\ adPc = "loop"
  /\ adIdx > Len(attorneys_list)
  /\ adPc' = "returned"
  /\ adExit' = 0
  /\ UNCHANGED << adIdx, adCsv, adFatalLogged, savesDone, adInputV, adStepV, nyVars, ncVars >>

(***************************************************************************)
(* The two NY save_to_csv methods called on their own, any number of times *)
(* with any batch, as successive runs do.                                  *)
(***************************************************************************)
CourtItems == { << 1, 1, 1, 1, 1 >>, << 1, 1, 2, 1, 1 >> }

DetailItems == { 1, 2 }

\* NewyorkCourtScraper.save_to_csv(scraped_data), lines 360-395
ny_save_call ==
  /\ savesDone < MaxSaves
  /\ \E items \in SeqsUpTo(CourtItems, MaxBatch) :
       courtCsv' = ny_save_to_csv(courtCsv, items)
  /\ savesDone' = savesDone + 1
  /\ UNCHANGED << nyPc, count_proceeding_types, countyIdx, monthIdx, attempt,
                  scraped_data, hist, stack, qPages, qLinks, portal, faults, gotoCalls,
                  sleptSeconds, allScraped, completedScopes, saveCalls, searches,
                  exitStatus, fatalLogged, abortCause, ncVars,
                  adPc, adIdx, adCsv, adExit, adFatalLogged, adInputV, adStepV >>

\* AttorneyDetailsScraper.save_to_csv(scraped_data), lines 282-315
ad_save_call ==
  /\ savesDone < MaxSaves
  /\ \E items \in SeqsUpTo(DetailItems, MaxBatch) :
       adCsv' = ad_save_to_csv(adCsv, items)
  /\ savesDone' = savesDone + 1
  /\ UNCHANGED << adPc, adIdx, adExit, adFatalLogged, adInputV, adStepV, nyVars, ncVars >>

\* get_attorneys_list, lines 56-66: list(set(...)): no name twice, any order
AttorneyLists(names, n) ==
  {list \in SeqsUpTo(names, n) :
     \A a, b \in 1..Len(list) : list[a] = list[b] => a = b}

\* the state of an AttorneyDetailsScraper before run(), no file written yet
adBefore(pc) ==
  /\ adPc = pc
  /\ adIdx = 1
  /\ adCsv = NoFile
  /\ adExit = "running"
  /\ adFatalLogged = FALSE
  /\ savesDone = 0
  /\ cleaned_name = << >>
  /\ first_name = << >>
  /\ middle_name = << >>
  /\ last_name = << >>
  /\ adForm = [first |-> << >>, middle |-> << >>, last |-> << >>]
  /\ adSubmitted = [first |-> << >>, middle |-> << >>, last |-> << >>]
  /\ adCaptcha = "not_reached"
  /\ adBrowser = [view |-> "form", tabs |-> 0]
  /\ adLinks = << >>
  /\ adClicked = 0
  /\ adWarned = FALSE
  /\ adOutcome = "none"
  /\ adExtracted = 0

\* the same, with an empty input CSV
adIdle ==
  /\ adBefore("start")
  /\ attorneys_list = << >>
  /\ adLinkMenu = {}
  /\ adCaptchaMenu = {}
  /\ adPageMenu = {}

\* the state of a NewyorkCourtScraper before run()
nyIdle ==
  /\ nyPc = "start"
  /\ count_proceeding_types = 0
  /\ countyIdx = 1
  /\ monthIdx = 1
  /\ attempt = 0
  /\ scraped_data = << >>
  /\ courtCsv = NoFile
  /\ hist = << [kind |-> "blank", page |-> 0, link |-> 0] >>
  /\ stack = << >>
  /\ qPages = 0
  /\ qLinks = 0
  /\ gotoCalls = 0
  /\ sleptSeconds = 0
  /\ allScraped = << >>
  /\ completedScopes = {}
  /\ saveCalls = << >>
  /\ searches = 0
  /\ exitStatus = "running"
  /\ fatalLogged = FALSE
  /\ abortCause = "none"

\* the state of a NorthCarolinaScraper before run()
ncIdle ==
  /\ ncPc = "start"
  /\ record_num = 0
  /\ captcha_token = "spent"
  /\ nc_scraped_data = << >>
  /\ ncCsv = NoFile
  /\ ncRows = 0
  /\ ncGrid = NoGrid
  /\ caseIdx = 1
  /\ check_case_type = << >>
  /\ attorney_info = << >>
  /\ all_case_events = << >>
  /\ evIdx = 1
  /\ linkIdx = 1
  /\ dlAttempt = 0
  /\ files_downloaded = << >>
  /\ pdf_found = FALSE
  /\ dlResults = << >>
  /\ ncFileLog = << >>
  /\ ncSearched = << >>
  /\ ncSteps = SearchLog(ncSearched)
  /\ ncAllScraped = << >>
  /\ ncSaveCalls = 0
  /\ ncExit = "running"
  /\ ncFatalLogged = FALSE
  /\ ncCause = "none"

ncIdleMenus ==
  /\ ncPartiesMenu = RunParties
  /\ ncEventsMenu = RunEvents
  /\ ncTotalsMenu = 1..MaxCases

nyIdlePortal ==
  /\ portal = [pages |-> 1, links |-> RunLinks, faults |-> 0, detail |-> CourtFields]
  /\ faults = 0

\* the NC scraper inside scrape_cases, on the first case of the first search
ncInFirstCase(pc) ==
  /\ ncPc = pc
  /\ record_num = 2
  /\ captcha_token = "spent"
  /\ nc_scraped_data = << >>
  /\ ncCsv = NoFile
  /\ ncRows = 1
  /\ ncGrid = NoGrid
  /\ caseIdx = 1
  /\ check_case_type = << "Decedents' Estate" >>
  /\ all_case_events = << >>
  /\ evIdx = 1
  /\ linkIdx = 1
  /\ dlAttempt = 0
  /\ files_downloaded = << >>
  /\ pdf_found = FALSE
  /\ dlResults = << >>
  /\ ncFileLog = << >>
  /\ ncSearched = << 0 >>
  /\ ncSteps = SearchLog(ncSearched)
  /\ ncAllScraped = << >>
  /\ ncSaveCalls = 0
  /\ ncExit = "running"
  /\ ncFatalLogged = FALSE
  /\ ncCause = "none"

\* SpecNC: the whole NC run.
InitNC ==
  /\ ncIdle
  /\ adIdle
  /\ ncIdleMenus
  /\ nyIdle
  /\ nyIdlePortal

\* SpecGrid: the whole run against a portal whose searches match up to one
\* case more than the grid shows on a page.
InitGrid ==
  /\ ncIdle
  /\ ncPartiesMenu = RunParties
  /\ ncEventsMenu = RunEvents
  /\ ncTotalsMenu = 1..(DefaultPageSize + 1)
  /\ adIdle
  /\ nyIdle
  /\ nyIdlePortal

\* SpecParties: get_attorney_info on every Parties payload within the bounds.
InitParties ==
  /\ ncInFirstCase("case_attorney")
  /\ attorney_info = << >>
  /\ \E all_parties \in AllParties(MaxParties) : ncPartiesMenu = {all_parties}
  /\ adIdle
  /\ ncEventsMenu = RunEvents
  /\ ncTotalsMenu = 1..MaxCases
  /\ nyIdle
  /\ nyIdlePortal

\* SpecPdf: get_pdf_files on every Events payload within the bounds.
InitPdf ==
  /\ ncInFirstCase("case_pdf")
  /\ attorney_info = << >>
  /\ ncPartiesMenu = RunParties
  /\ \E events \in AllEvents(MaxEvents) : ncEventsMenu = {events}
  /\ ncTotalsMenu = 1..MaxCases
  /\ adIdle
  /\ nyIdle
  /\ nyIdlePortal

\* get_attorney_info, lines 345-351: every combination of present and empty
\* address fields
AllAddresses ==
  [AddressLine1 : {<< >>, << "1 Main St" >>}, AddressLine2 : {<< >>, << "Suite 2" >>},
   AddressLine3 : {<< >>, << "Floor 3" >>}, AddressLine4 : {<< >>, << "Box 4" >>},
   City : {<< >>, << "Raleigh" >>}, State : {<< >>, << "NC" >>},
   PostalCode : {<< >>, << "27601" >>}]

\* SpecAddress: get_attorney_info on a case whose one attorney has one address.
InitAddress ==
  /\ ncInFirstCase("case_attorney")
  /\ attorney_info = << >>
  /\ \E address \in AllAddresses :
       ncPartiesMenu = { << << [FormattedName |-> "A", Addresses |-> << address >>] >> >> }
  /\ ncEventsMenu = RunEvents
  /\ ncTotalsMenu = 1..MaxCases
  /\ adIdle
  /\ nyIdle
  /\ nyIdlePortal

\* scrape_cases, lines 183-193: a record whose case has k attorneys
BatchRecord(k) ==
  [CaseNumber |-> << "24E0000-", Digits[k + 1] >>,
   CaseType |-> << "Decedents' Estate" >>,
   AttorneyInfo |-> [j \in 1..k |-> [AttorneyName |-> Digits[j + 1],
                                     AttorneyAddress |-> << >>]],
   PDFFile |-> << "Not Found" >>]

\* SpecNcSave: run() has left its loop (line 100) with any batch of at most
\* MaxRecords records of at most MaxWidth attorneys each.
InitNcSave ==
  /\ ncPc = "save"
  /\ record_num = 4
  /\ captcha_token = "spent"
  /\ ncSearched = << 0, 2 >>
  /\ ncSteps = SearchLog(ncSearched)
  /\ \E batch \in SeqsUpTo({BatchRecord(k) : k \in 0..MaxWidth}, MaxRecords) :
       /\ nc_scraped_data = batch
       /\ ncAllScraped = batch
       /\ ncRows = Len(batch)
       /\ ncGrid = NoGrid
       /\ caseIdx = Len(batch) + 1
  /\ ncCsv = NoFile
  /\ check_case_type = << >>
  /\ attorney_info = << >>
  /\ all_case_events = << >>
  /\ evIdx = 1
  /\ linkIdx = 1
  /\ dlAttempt = 0
  /\ files_downloaded = << >>
  /\ pdf_found = FALSE
  /\ dlResults = << >>
  /\ ncFileLog = << >>
  /\ ncSaveCalls = 0
  /\ ncExit = "running"
  /\ ncFatalLogged = FALSE
  /\ ncCause = "none"
  /\ ncIdleMenus
  /\ adIdle
  /\ nyIdle
  /\ nyIdlePortal

\* SpecNY: the whole run, against a portal whose result sets have one page of
\* at most RunLinks links and which serves no per-item failure.
InitNY ==
  /\ nyIdle
  /\ nyIdlePortal
  /\ ncIdle
  /\ ncIdleMenus
  /\ adIdle

\* SpecAD: the whole run of the attorney-details scraper.
InitAD ==
  /\ adBefore("start")
  /\ \E list \in AttorneyLists({ << << "John" >>, << "Smith" >> >>,
                                  << << "Maria" >>, << "De" >>, << "La" >>, << "Cruz" >> >>,
                                  << << "Cruz" >> >> },
                                MaxListed) : attorneys_list = list
  /\ adLinkMenu = { << << << "Smith", "," >>, << "John" >> >> >>,
                    << << << "Jones", "," >>, << "Robert" >>, << "B" >> >> >> }
  /\ adCaptchaMenu = {"absent", "unsolved", "solved"}
  /\ adPageMenu = {CompleteProfile}
  /\ nyIdle
  /\ nyIdlePortal
  /\ ncIdle
  /\ ncIdleMenus

\* SpecSave: no file exists.
\* one attorney of the list and the links its search shows
InitMatch ==
  LET queries == { << << "John" >>, << "Smith" >> >>,
                   << << "Robert" >>, << "Jones" >> >>,
                   << << "Smith", "," >>, << "John" >> >>,
                   << << "John" >>, << "O" >>, << "Connor" >> >> }
      candidates == { << << "Smith", "," >>, << "John" >>, << "A" >> >>,
                      << << "Smith", "," >>, << "John" >> >>,
                      << << "Jones", "," >>, << "Robert" >>, << "B" >> >>,
                      << << "O'Connor", "," >>, << "John" >> >> }
  IN /\ adBefore("loop")
     /\ nyIdle /\ ncIdle /\ ncIdleMenus /\ nyIdlePortal
     /\ \E attorney \in queries : attorneys_list = << attorney >>
     /\ \E links \in SeqsUpTo(candidates, MaxCandidates) \ {<< >>} : adLinkMenu = {links}
     /\ adCaptchaMenu = {"absent"}
     /\ adPageMenu = {CompleteProfile}

\* one attorney name of up to MaxNameTokens pieces, any result links
InitNames ==
  LET pieces == { << "John" >>, << "O" >>, << "Connor" >>, << "Jr" >>, << "Maria" >>,
                  << "De" >>, << "La" >>, << "Cruz" >>, << >> }
  IN /\ adBefore("loop")
     /\ nyIdle /\ ncIdle /\ ncIdleMenus /\ nyIdlePortal
     /\ \E attorney \in SeqsUpTo(pieces, MaxNameTokens) \ {<< >>} :
          attorneys_list = << attorney >>
     /\ adLinkMenu = { << << << "Cruz", "," >>, << "Maria" >> >> >> }
     /\ adCaptchaMenu = {"absent"}
     /\ adPageMenu = {CompleteProfile}

InitSave ==
  /\ adIdle
  /\ nyIdle
  /\ nyIdlePortal
  /\ ncIdle
  /\ ncIdleMenus

\* SpecNYQuery: the first query of a run (PROBATE, first county, January) at
\* the moment its form is filled, against a portal that serves several pages
\* and per-item failures.
nyFormFilled ==
  /\ nyPc = "fill"
  /\ count_proceeding_types = 1
  /\ countyIdx = 1
  /\ monthIdx = 1
  /\ attempt = 0
  /\ scraped_data = << >>
  /\ courtCsv = NoFile
  /\ hist = << FormView >>
  /\ stack = << >>
  /\ qPages = 0
  /\ qLinks = 0
  /\ gotoCalls = 1
  /\ sleptSeconds = 0
  /\ allScraped = << >>
  /\ completedScopes = {}
  /\ saveCalls = << >>
  /\ searches = 0
  /\ exitStatus = "running"
  /\ fatalLogged = FALSE
  /\ abortCause = "none"

InitNYQuery ==
  /\ nyFormFilled
  /\ portal = [pages |-> MaxPages, links |-> MaxLinks, faults |-> MaxFaults,
               detail |-> CourtFields]
  /\ faults = MaxFaults
  /\ ncIdle
  /\ ncIdleMenus
  /\ adIdle

\* the steps of run() itself
NextNYRun ==
  \/ ny_run_start
  \/ ny_run_start_fail
  \/ ny_run_proceeding
  \/ ny_run_county
  \/ ny_run_month
  \/ ny_run_goto_ok
  \/ ny_run_goto_fail
  \/ ny_run_search_no_results
  \/ ny_run_search_results
  \/ ny_run_search_fail
  \/ ny_run_scope_end

\* the steps of get_attorney_info and get_next_page on a one-page result set
\* whose links all open and parse
NextNYPlain ==
  \/ ny_gai_enter
  \/ ny_gai_link_ok
  \/ ny_gai_loop_end
  \/ ny_gnp_enter

\* their steps that need a failure or a second result page
NextNYRich ==
  \/ ny_gai_link_timeout
  \/ ny_gai_link_no_text
  \/ ny_gai_link_click_fail
  \/ ny_gai_link_extract_fail
  \/ ny_gnp_link_timeout
  \/ ny_gnp_click_fail
  \/ ny_gnp_click_ok
  \/ ny_gnp_loop_end

NextNY == NextNYRun \/ NextNYPlain

NextNYQuery == ny_run_search_results \/ NextNYPlain \/ NextNYRich

NextNYAll == NextNYRun \/ NextNYPlain \/ NextNYRich

NextPdf ==
  \/ nc_pdf_request
  \/ nc_pdf_request_error
  \/ nc_pdf_event
  \/ nc_pdf_event_type_error
  \/ nc_pdf_links_end
  \/ nc_download_ok
  \/ nc_download_conn_error
  \/ nc_download_http_error
  \/ nc_download_os_error
  \/ nc_pdf_return
  \/ nc_case_append

NextParties ==
  \/ nc_get_attorney_info
  \/ nc_get_attorney_info_request_error
  \/ nc_get_attorney_info_type_error

NextNC ==
  \/ nc_run_start
  \/ nc_run_start_fail
  \/ nc_run_search
  \/ nc_run_search_fail
  \/ nc_run_no_cases
  \/ nc_run_await_timeout
  \/ nc_run_cases
  \/ nc_case_type
  \/ nc_case_type_fail
  \/ nc_cases_end
  \/ nc_run_save
  \/ NextParties
  \/ NextPdf

NextAD ==
  \/ ad_run_start
  \/ ad_run_start_fail
  \/ ad_attorney_saved
  \/ ad_attorney_no_results
  \/ ad_attorney_error
  \/ ad_run_end

NextSave == ny_save_call \/ ad_save_call

SpecNY == InitNY /\ [][NextNY]_vars

\* SpecNYRun: the whole run, against a portal whose result sets have one page
\* with at most one case-file link; the interpreter runs the one thread of the
\* scraper until it exits.
InitNYRun ==
  /\ nyIdle
  /\ portal = [pages |-> 1, links |-> 1, faults |-> 0, detail |-> CourtFields]
  /\ faults = 0
  /\ ncIdle
  /\ ncIdleMenus
  /\ adIdle

SpecNYRun == InitNYRun /\ [][NextNY]_vars /\ WF_vars(NextNY)

SpecAD == InitAD /\ [][NextAD]_vars

SpecSave == InitSave /\ [][NextSave]_vars

SpecNC == InitNC /\ [][NextNC]_vars

SpecParties == InitParties /\ [][NextParties]_vars

SpecPdf == InitPdf /\ [][NextPdf]_vars

SpecNcSave == InitNcSave /\ [][nc_run_save]_vars

NextAttorney ==
  \/ ad_attorney_saved
  \/ ad_attorney_no_results
  \/ ad_attorney_error

SpecMatch == InitMatch /\ [][NextAttorney]_vars

\* the steps of an attorney whose search is answered
NextNames ==
  \/ ad_attorney_saved
  \/ ad_attorney_no_results

SpecNames == InitNames /\ [][NextNames]_vars

\* the two New York programs: each is a process of its own, one of them is run
NextNewYork ==
  \/ adPc = "start" /\ NextNY
  \/ nyPc = "start" /\ NextAD

\* both programs before their run; the attorney list of two names
InitNewYork ==
  /\ adBefore("start")
  /\ attorneys_list = << << << "Robert" >>, << "Jones" >> >>, << << "John" >>, << "Smith" >> >> >>
  /\ adLinkMenu = { << << << "Smith", "," >>, << "John" >> >> >> }
  /\ adCaptchaMenu = {"absent"}
  /\ adPageMenu = {CompleteProfile}
  /\ nyIdle /\ nyIdlePortal /\ ncIdle /\ ncIdleMenus

SpecNewYork == InitNewYork /\ [][NextNewYork]_vars

SpecAddress == InitAddress /\ [][NextParties]_vars

SpecGrid == InitGrid /\ [][NextNC]_vars

SpecNYQuery == InitNYQuery /\ [][NextNYQuery]_vars

\* SpecPages: the first query of a run against a portal that serves several
\* pages and no failure: every wait, click and extraction succeeds, whatever
\* optional elements the file-history pages hold.
InitPages ==
  /\ nyFormFilled
  /\ \E detail \in SUBSET CourtFields :
       /\ ~ExtractionRaises(detail)
       /\ portal = [pages |-> MaxPages, links |-> MaxLinks, faults |-> 0, detail |-> detail]
  /\ faults = 0
  /\ ncIdle
  /\ ncIdleMenus
  /\ adIdle

NextPages ==
  \/ ny_run_search_results
  \/ NextNYPlain
  \/ ny_gnp_click_ok

\* the interpreter runs the one thread of the scraper until it exits
SpecPages == InitPages /\ [][NextPages]_vars /\ WF_vars(NextPages)

\* SpecExtract: the two extractors on every shape of detail page. Either the
\* court scraper runs one query against a portal whose file-history pages
\* hold any subset of the elements looked for, or the attorney scraper looks
\* up one attorney whose detail page holds any mix of labels and cells.
InitExtract ==
  \/ /\ nyFormFilled
     /\ \E detail \in SUBSET CourtFields :
          portal = [pages |-> 1, links |-> MaxLinks, faults |-> 0, detail |-> detail]
     /\ faults = 0
     /\ ncIdle /\ ncIdleMenus /\ adIdle
  \/ /\ adBefore("loop")
     /\ attorneys_list = << << << "John" >>, << "Smith" >> >> >>
     /\ adLinkMenu = { << << << "Smith", "," >>, << "John" >> >> >> }
     /\ adCaptchaMenu = {"absent"}
     /\ \E response \in ProfilePages : adPageMenu = {response}
     /\ nyIdle /\ nyIdlePortal /\ ncIdle /\ ncIdleMenus

NextExtract ==
  \/ /\ adPc = "start"
     /\ \/ ny_run_search_results
        \/ NextNYPlain
        \/ ny_gai_link_extract_fail
        \/ ny_gai_link_timeout
  \/ /\ nyPc = "start"
     /\ ad_attorney_saved

SpecExtract == InitExtract /\ [][NextExtract]_vars

(***************************************************************************)
(* Claims about NewyorkCourtScraper                                        *)
(***************************************************************************)

\* C1: in get_attorney_info, a case-file link whose click or extraction fails
\* is skipped: before the next link is processed the browser shows the results
\* view the links were counted on, the next link is found on it, and the run
\* is never aborted because a remaining link is not on the page shown.
C1_FailedLinkIsSkipped ==
  /\ InLinkLoop => View = Top.origin /\ LinkVisible
  /\ abortCause # "LinkNotOnPage"

\* C4: per query the search form is navigated to at most 3 times, 5 s are
\* slept after each failed attempt but the last, the form is filled right
\* after the first success, and 3 failures end the run with exit status 1
\* and no further step.
C4_NavigationRetryPolicy ==
  /\ gotoCalls <= 3
  /\ nyPc = "navigate" => /\ attempt <= 2
                          /\ gotoCalls = attempt
                          /\ sleptSeconds = 5 * attempt
  /\ nyPc = "fill" => /\ gotoCalls \in 1..3
                      /\ sleptSeconds = 5 * (gotoCalls - 1)
                      /\ View = FormView
  /\ abortCause = "navigation" => /\ gotoCalls = 3
                                  /\ sleptSeconds = 10
                                  /\ exitStatus = 1
                                  /\ nyPc = "exited"
  /\ nyPc = "exited" => ~ENABLED NextNYAll

C4_Witness == abortCause = "navigation" /\ gotoCalls = 3 /\ searches > 0

\* C7: in get_next_page, whenever the next page link is about to be located
\* the browser shows the results view the page links were discovered on.
C7_BackOnOriginBeforeNextPage == InPageLoop => View = Top.origin

HasDuplicates(seq) == \E a, b \in 1..Len(seq) : a # b /\ seq[a] = seq[b]

RecordsOfScopes(scopes) ==
  SelectSeq(allScraped, LAMBDA r : << r[1], r[2] >> \in scopes)

\* C8: the batch of a (proceeding type, county) scope is written exactly once,
\* after the 12 searches of the scope and only if it is non-empty; at any
\* moment, an abort included, the file holds exactly the records of the
\* completed scopes, in scrape order.
C8_FlushOncePerScope ==
  /\ DataRecs(courtCsv) = RecordsOfScopes(completedScopes)
  /\ ~HasDuplicates(saveCalls)
  /\ \A k \in 1..Len(saveCalls) :
       /\ saveCalls[k] \in completedScopes
       /\ RecordsOfScopes({saveCalls[k]}) # << >>
  /\ \A sc \in completedScopes :
       RecordsOfScopes({sc}) # << >> => \E k \in 1..Len(saveCalls) : saveCalls[k] = sc
  /\ nyPc = "scope_end" => /\ monthIdx = 13
                           /\ searches = 12 * (Cardinality(completedScopes) + 1)
  /\ scraped_data = RecordsOfScopes({Scope} \ completedScopes)
       \/ nyPc \in {"start", "proceeding", "county", "done"}

C8_Witness ==
  /\ nyPc = "exited"
  /\ Len(DataRecs(courtCsv)) > 0
  /\ scraped_data # << >>

(***************************************************************************)
(* Claims about NorthCarolinaScraper                                       *)
(***************************************************************************)
CaseFailures == {"case_type", "parties", "events"}

\* C2: a failure while one case is processed inside scrape_cases (a failing
\* or non-JSON case-type, parties or events answer, a missing or null JSON
\* field) never ends the NC run: the run ends only by save_to_csv or by a
\* failure outside the per-case work.
C2_CaseFailureIsSkipped == ncPc = "crashed" => ncCause \notin CaseFailures

\* C3: whenever one of the three run() methods is ended by an error its loops
\* do not handle, a fatal message has been logged by a guard around the run,
\* and the NY-court and the NC process end with a non-zero exit status.
C3_TopLevelGuard ==
  /\ nyPc = "exited" => fatalLogged /\ exitStatus \in {1}
  /\ ncPc = "crashed" => ncFatalLogged /\ ncExit \in {1}
  /\ adPc = "returned" /\ adIdx <= Len(attorneys_list) => adFatalLogged

\* the payload the Parties API served
ServedParties == CHOOSE all_parties \in ncPartiesMenu : TRUE

IsLongest(all_parties, k) ==
  \A j \in 1..Len(all_parties) : Len(all_parties[j]) <= Len(all_parties[k])

NamesOf(attorneys) == [k \in 1..Len(attorneys) |-> attorneys[k].AttorneyName]

RECURSIVE DedupNames(_, _)
DedupNames(seen, infos) ==
  IF infos = << >> THEN seen
  ELSE DedupNames(IF InSeq(Head(infos).FormattedName, seen) THEN seen
                  ELSE Append(seen, Head(infos).FormattedName),
                  Tail(infos))

\* C5: what get_attorney_info returns for a Parties answer is exactly the
\* attorneys, without repeated names, of one party whose attorney list is the
\* longest (nothing when no party has an attorney).
C5_LongestPartyOnly ==
  ncPc = "case_pdf" /\ ncCause = "none" =>
    \/ attorney_info = << >>
    \/ \E k \in 1..Len(ServedParties) :
         /\ IsLongest(ServedParties, k)
         /\ NamesOf(attorney_info) = DedupNames(<< >>, ServedParties[k])

\* C6: get_pdf_files returns True exactly when one of the download_file calls
\* it made for the case returned True.
C6_FoundIffSomeDownload ==
  ncPc = "case_append" => (pdf_found <=> InSeq(TRUE, dlResults))

\* C9: the NC file is written by one save_to_csv call, made when the search
\* loop has ended; it then holds one row per record ever appended by
\* scrape_cases, in scrape order; before that call, and in a run that aborts,
\* no file is written.
C9_SavedOnceAtTheEnd ==
  /\ ncSaveCalls <= 1
  /\ ncSaveCalls = 1 <=> ncPc = "done"
  /\ ncPc # "done" => ncCsv = NoFile
  /\ ncPc = "done" =>
       /\ ncCsv.exists
       /\ Len(ncCsv.rows) = Len(ncAllScraped) + 1
       /\ \A k \in 1..Len(ncAllScraped) :
            /\ ncCsv.rows[k + 1][1] = ncAllScraped[k].CaseNumber
            /\ ncCsv.rows[k + 1][3] = ncAllScraped[k].PDFFile
       /\ ncExit = 0

C9_Witness ==
  /\ ncPc = "done"
  /\ Len(ncAllScraped) = 2
  /\ ncAllScraped[1].CaseNumber # ncAllScraped[2].CaseNumber

\* the (party, attorney) positions for which get_attorney_info builds an
\* entry: the attorneys of each party longer than every party before it
BuiltEntries(P) ==
  {<< i, j >> \in (1..Len(P)) \X (1..(MaxAttorneys + 1)) :
     /\ j <= Len(P[i])
     /\ \A h \in 1..(i - 1) : Len(P[h]) < Len(P[i])}

Precedes(a, b) == a[1] < b[1] \/ (a[1] = b[1] /\ a[2] < b[2])

\* C12: the list get_attorney_info returns has no two entries with the same
\* AttorneyName, and the entry kept for a name is the one built first, in
\* party / attorney iteration order, among the entries built with that name.
C12_FirstEntryPerNameKept ==
  ncPc = "case_pdf" /\ ncCause = "none" /\ attorney_info # << >> =>
    LET P == ServedParties
        built == BuiltEntries(P)
    IN /\ \A a, b \in 1..Len(attorney_info) :
            attorney_info[a].AttorneyName = attorney_info[b].AttorneyName => a = b
       /\ \A o \in built : \E k \in 1..Len(attorney_info) :
            attorney_info[k].AttorneyName = P[o[1]][o[2]].FormattedName
       /\ \A k \in 1..Len(attorney_info) : \E o \in built :
            /\ P[o[1]][o[2]].FormattedName = attorney_info[k].AttorneyName
            /\ \A o2 \in built :
                 P[o2[1]][o2[2]].FormattedName = attorney_info[k].AttorneyName
                   => ~Precedes(o2, o)
            /\ attorney_info[k].AttorneyAddress =
                 [a \in 1..Len(P[o[1]][o[2]].Addresses) |->
                    << "1 Main St", ", ", "Raleigh", ", ", "NC", " ", "27601" >>]

\* "A" first with an address, later without: the entry with the address stays
C12_Witness ==
  /\ ncPc = "case_pdf"
  /\ ServedParties = << << [FormattedName |-> "A", Addresses |-> OneAddress],
                          [FormattedName |-> "A", Addresses |-> NoAddress] >> >>
  /\ Len(attorney_info) = 1
  /\ attorney_info[1].AttorneyAddress # << >>

\* C13: the formatted address is the non-empty address lines followed by the
\* location suffix, joined by ", "; the suffix is made of the non-empty ones
\* of city, state and postal code only ("city, state zip"), so no separator
\* leads, trails or is doubled.
C13_AddressSkipsEmptyParts ==
  ncPc = "case_pdf" /\ ncCause = "none" /\ attorney_info # << >> =>
    LET address == ServedParties[1][1].Addresses[1]
        state_zip == Join(" ", NonEmpty(<< address.State, address.PostalCode >>))
        suffix == Join(", ", NonEmpty(<< address.City, state_zip >>))
        expected == Join(", ", NonEmpty(<< address.AddressLine1, address.AddressLine2,
                                           address.AddressLine3, address.AddressLine4,
                                           suffix >>))
        formatted == attorney_info[1].AttorneyAddress[1]
        IsSeparator(t) == t \in {", ", " "}
    IN /\ formatted = expected
       /\ formatted # << >> => /\ ~IsSeparator(formatted[1])
                               /\ ~IsSeparator(formatted[Len(formatted)])
       /\ \A k \in 1..(Len(formatted) - 1) :
            ~(IsSeparator(formatted[k]) /\ IsSeparator(formatted[k + 1]))

\* C11: the header NC save_to_csv writes has 3 + 2*M columns, M being the
\* largest attorney count of a record of the batch, with the M pairs
\* "Attorney Name i" / "Attorney Address i"; every data row has as many cells
\* as the header, and the row of a record with k attorneys ends with
\* 2*(M-k) empty cells.
C11_RowsPaddedToWidestRecord ==
  ncPc = "done" =>
    LET batch == ncAllScraped
        counts == {Len(batch[r].AttorneyInfo) : r \in 1..Len(batch)}
        M == IF counts = {} THEN 0 ELSE CHOOSE m \in counts : \A c \in counts : c <= m
        header == ncCsv.rows[1]
    IN /\ Len(ncCsv.rows) = Len(batch) + 1
       /\ Len(header) = 3 + 2 * M
       /\ \A i \in 1..M :
            /\ header[2 + 2 * i] = << "Attorney Name ", Digits[i + 1] >>
            /\ header[3 + 2 * i] = << "Attorney Address ", Digits[i + 1] >>
       /\ \A r \in 1..Len(batch) :
            LET row == ncCsv.rows[r + 1]
                k == Len(batch[r].AttorneyInfo)
            IN /\ Len(row) = Len(header)
               /\ \A c \in (3 + 2 * k + 1)..Len(row) : row[c] = << >>
               /\ \A j \in 1..k : row[2 + 2 * j] = << batch[r].AttorneyInfo[j].AttorneyName >>

C11_Witness ==
  /\ ncPc = "done"
  /\ Len(ncAllScraped) = 2
  /\ Len(ncAllScraped[1].AttorneyInfo) = 3
  /\ Len(ncAllScraped[2].AttorneyInfo) = 1
  /\ Len(ncCsv.rows[1]) = 9
  /\ Len(ncCsv.rows[3]) = 9
  /\ \A c \in 6..9 : ncCsv.rows[3][c] = << >>

(***************************************************************************)
(* Claims about the NY save_to_csv methods                                 *)
(***************************************************************************)
\* the tokens of a text when commas are ignored: its pieces cut at commas
TokensIgnoringCommas(text) ==
  UNION {CommaRuns(Upper(text[k]), << >>) : k \in 1..Len(text)}

\* C14: when an attorney's details are saved, the link clicked is the first
\* result link whose upper-cased token set equals the token set of the name
\* searched for, commas being ignored in both; with no such link the first
\* link is clicked; the fallback warning is logged exactly when no link
\* matched.
C14_FirstMatchingLinkClicked ==
  adOutcome = "saved" =>
    LET attorney == RewriteOConnor(attorneys_list[adIdx - 1])
        matching == {k \in 1..Len(adLinks) :
                       TokensIgnoringCommas(adLinks[k]) = TokensIgnoringCommas(attorney)}
    IN /\ matching # {} => /\ adClicked \in matching
                            /\ \A m \in matching : adClicked <= m
       /\ matching = {} => adClicked = 1
       /\ adWarned <=> matching = {}

\* the name whose step has just been taken
NameDone == attorneys_list[adIdx - 1]

\* piece i of a name starts an 'O Connor', piece i is the 'Connor' of one
StartsOConnor(name, i) ==
  i < Len(name) /\ name[i] = << "O" >> /\ name[i + 1] = << "Connor" >>

\* the positions of a name whose token stays in the cleaned list, and the
\* token each of them gives
KeptPositions(name) ==
  {i \in 1..Len(name) :
     /\ ~(i > 1 /\ StartsOConnor(name, i - 1))
     /\ name[i] # << >>
     /\ \/ StartsOConnor(name, i)
        \/ \A w \in {"JR", "SR", "II", "III", "IV", "V", "ESQ", "ESQUIRE", "VAN", "DE",
                      "DEL", "DI", "LA", "ST", "VON"} : Upper(name[i]) # << w >>}

TokenAt(name, i) == IF StartsOConnor(name, i) THEN << "O'Connor" >> ELSE name[i]

\* C15: after an attorney's step the cleaned token list holds, in their
\* order in the name, exactly the space-separated tokens of the name with
\* 'O Connor' rewritten to "O'Connor" that are neither empty nor a suffix or
\* prefix of the list; 'John O Connor Jr' gives [John, O'Connor], 'Maria De
\* La Cruz' gives first name Maria and last name Cruz.
C15_CleanedTokens ==
  adOutcome # "none" =>
    /\ Len(cleaned_name) = Cardinality(KeptPositions(NameDone))
    /\ \E at \in [1..Len(cleaned_name) -> KeptPositions(NameDone)] :
         /\ \A a, b \in 1..Len(cleaned_name) : a < b => at[a] < at[b]
         /\ \A a \in 1..Len(cleaned_name) : cleaned_name[a] = TokenAt(NameDone, at[a])
    /\ NameDone = << << "John" >>, << "O" >>, << "Connor" >>, << "Jr" >> >>
         => cleaned_name = << << "John" >>, << "O'Connor" >> >>
    /\ NameDone = << << "Maria" >>, << "De" >>, << "La" >>, << "Cruz" >> >>
         => first_name = << "Maria" >> /\ last_name = << "Cruz" >>

C15_Witness ==
  /\ adOutcome = "saved"
  /\ NameDone = << << "John" >>, << "O" >>, << "Connor" >>, << "Jr" >> >>
  /\ cleaned_name = << << "John" >>, << "O'Connor" >> >>

\* C16: after an attorney's step, two remaining tokens are the first and
\* the last name with no middle name; three or four remaining tokens give
\* the first token as first name, the second as middle name and the final
\* remaining token as last name.
C16_NamePartsByPosition ==
  adOutcome # "none" =>
    /\ Len(cleaned_name) = 2
         => /\ first_name = cleaned_name[1]
            /\ middle_name = << >>
            /\ last_name = cleaned_name[2]
    /\ Len(cleaned_name) \in {3, 4}
         => /\ first_name = cleaned_name[1]
            /\ middle_name = cleaned_name[2]
            /\ last_name = cleaned_name[Len(cleaned_name)]

\* the court search has been submitted and the form page with the banner
\* "No Matching Files Were Found" is what the browser shows
CourtBannerStep ==
  /\ nyPc = "fill"
  /\ searches' = searches + 1
  /\ hist'[Len(hist')] = FormView

\* the attorney search has been submitted and the banner "Your Attorney
\* search returned no results." is what the browser shows
AttorneyBannerStep ==
  /\ InAttorneyLoop
  /\ adOutcome' = "no_results"

\* C17: a court query and an attorney query that are answered with the
\* no-results banner add no record, raise no error, and leave the program at
\* the head of its loop with the next query at hand.
C17_NoResultsAddsNothing ==
  [][/\ CourtBannerStep =>
           (/\ scraped_data' = scraped_data
            /\ allScraped' = allScraped
            /\ courtCsv' = courtCsv
            /\ stack' = stack
            /\ faults' = faults
            /\ exitStatus' = "running"
            /\ nyPc' = "month"
            /\ monthIdx' = monthIdx + 1)
     /\ AttorneyBannerStep =>
           (/\ adCsv' = adCsv
            /\ adExit' = "running"
            /\ ~adFatalLogged'
            /\ adPc' = "loop"
            /\ adIdx' = adIdx + 1)]_vars

\* a banner has been met and passed: the court run is at its next month with
\* the batch of the month before untouched, or the attorney run is at its
\* second attorney with the record of the first still the only one saved
C17_Witness ==
  \/ /\ nyPc = "month" /\ monthIdx = DataMonths + 2 /\ hist[Len(hist)] = FormView
      /\ scraped_data # << >> /\ exitStatus = "running"
  \/ /\ adOutcome = "no_results" /\ adIdx = 3 /\ adPc = "loop"
      /\ adCsv # NoFile /\ adExit = "running"

\* the response to a record-number query is the message "No cases match
\* your search": neither the grid of cases nor an exception
NoCasesStep ==
  /\ ncPc = "await"
  /\ ncPc' \notin {"case_type", "crashed"}

\* C18 as stated: a record-number query answered with "No cases match your
\* search" raises no error and the run goes on to the next record-number
\* query.
C18_NoCasesGoesToNextQuery ==
  [][NoCasesStep => (ncExit' = "running" /\ ncPc' = "search")]_vars

\* C18, amended: a record-number query answered with "No cases match your
\* search" raises no error and ends the query loop: the batch is left as it
\* is, no further record-number query is made, and the run saves the batch
\* once and ends with status 0.
C18_NoCasesEndsTheQueries ==
  [][/\ NoCasesStep =>
           (/\ ncExit' = "running"
            /\ ncPc' = "save"
            /\ UNCHANGED << record_num, ncSearched, nc_scraped_data, ncCsv >>)
     /\ ncPc = "save" =>
           (/\ ncPc' = "done"
            /\ ncExit' = 0
            /\ ncSearched' = ncSearched
            /\ ncSaveCalls' = ncSaveCalls + 1)
     /\ ncPc = "done" => UNCHANGED ncSearched]_vars

\* a run that scraped one query, met the message at the next and has ended
C18_Witness ==
  /\ ncPc = "done"
  /\ ncExit = 0
  /\ Len(ncSearched) = 2
  /\ nc_scraped_data # << >>
  /\ ncSaveCalls = 1

\* the number of times the file of entry e has been opened for writing
OpensOf(e) ==
  Cardinality({k \in 1..Len(ncFileLog) :
                 /\ ncFileLog[k].kind = "open"
                 /\ ncFileLog[k].case_no = e.case_no
                 /\ ncFileLog[k].file = e.file})

\* event j of the payload asks for a download: a Bond event with a document
AsksDownload(j) ==
  /\ all_case_events[j].hasDescription
  /\ IsBond(all_case_events[j].Description)
  /\ all_case_events[j].Documents > 0

\* the events before event j that ask for the download of the same file
EarlierRequests(j) ==
  {i \in 1..(j - 1) :
     /\ AsksDownload(i)
     /\ FormattedFileName(all_case_events[i].Description)
          = FormattedFileName(all_case_events[j].Description)}

\* C19 as stated: a file whose download has been requested a second time
\* for the same case has been opened for writing at most once (ncFileLog
\* holds the opens and notices of one case).
C19_FileOpenedAtMostOnce ==
  \A k \in 1..Len(ncFileLog) :
    ncFileLog[k].kind = "skip" => OpensOf(ncFileLog[k]) <= 1

\* every file opened during the call at hand belongs to a first request of
\* the payload and has been opened at most once for each download attempt of
\* each parent link of that request
OpensBounded ==
  \A k \in 1..Len(ncFileLog) :
    ncFileLog[k].kind = "open" =>
      \E j \in 1..Len(all_case_events) :
        /\ AsksDownload(j)
        /\ EarlierRequests(j) = {}
        /\ FormattedFileName(all_case_events[j].Description) = ncFileLog[k].file
        /\ OpensOf(ncFileLog[k]) <= retries * all_case_events[j].ParentLinks

\* C19, amended: within one get_pdf_files call, an event that asks for a
\* file an earlier event of the call asked for is skipped with the notice:
\* it opens no file, makes no download call and the next event is at hand;
\* the first request alone may open the file once for each download attempt
\* of each of its parent links, and no more.
C19_SecondRequestSkipped ==
  [][/\ (InEvent /\ AsksDownload(evIdx) /\ EarlierRequests(evIdx) # {}) =>
           (/\ ncFileLog' = Append(ncFileLog, FileEntry("skip"))
            /\ UNCHANGED << files_downloaded, dlResults, pdf_found >>
            /\ evIdx' = evIdx + 1
            /\ ncPc' = "pdf_event")
     /\ OpensBounded']_vars

\* the second of two events of the same file has been skipped after the
\* first one had its file written
C19_Witness ==
  /\ Len(ncFileLog) = 2
  /\ ncFileLog[1].kind = "open"
  /\ ncFileLog[2].kind = "skip"
  /\ ncFileLog[2].file = ncFileLog[1].file
  /\ ncFileLog[2].case_no = ncFileLog[1].case_no
  /\ pdf_found

\* a case that is not excluded is being worked on: its lookups and its append
CaseUnderWork ==
  ncPc \in {"case_attorney", "case_pdf", "pdf_event", "pdf_links", "case_append"}

\* C20: a case whose type is exactly "Decedents' Estate - Small Estate" is
\* never appended and neither its parties nor its case events are looked up;
\* every case of another type is appended exactly once: its work ends in no
\* other way than with its one record appended, and no case number is
\* appended twice.
C20_SmallEstateExcluded ==
  [][/\ (InCase /\ check_case_type' = << "Decedents' Estate - Small Estate" >>
           /\ ncPc' # "crashed") =>
           (/\ ncPc' = "case_type"
            /\ caseIdx' = caseIdx + 1
            /\ UNCHANGED << nc_scraped_data, ncAllScraped, attorney_info, ncPdfV >>)
     /\ (CaseUnderWork /\ ~CaseUnderWork') =>
           (/\ ncPc' = "case_type"
            /\ caseIdx' = caseIdx + 1
            /\ Len(nc_scraped_data') = Len(nc_scraped_data) + 1
            /\ nc_scraped_data'[Len(nc_scraped_data')].CaseNumber = CaseNumber(caseIdx)
            /\ nc_scraped_data'[Len(nc_scraped_data')].CaseType = check_case_type)
     /\ \A a, b \in 1..Len(nc_scraped_data') :
          nc_scraped_data'[a].CaseNumber = nc_scraped_data'[b].CaseNumber => a = b]_vars

DownloadReturned == Len(dlResults') = Len(dlResults) + 1

C22_DownloadFailureNeverFatal ==
  [][InLinks =>
       /\ dlAttempt < retries /\ dlAttempt' < retries
       /\ DownloadReturned =>
            (\/ dlResults'[Len(dlResults')] /\ pdf_found'
             \/ ~dlResults'[Len(dlResults')] /\ dlAttempt = retries - 1 /\ ~pdf_found')
       /\ ncPc' # "crashed"
       /\ ncExit' = "running"
       /\ ncPc' = "case_append" => ~pdf_found']_vars

\* C23: the search button is never clicked by the scraper while the
\* h-captcha widget is visible and not yet resolved; the widget is resolved
\* by a human only.
C23_NoClickBeforeCaptchaResolved ==
  adCaptcha \in {"not_reached", "absent", "solved"}

\* C24: a search whose CAPTCHA solve failed (solve_recaptcha_v2 returned
\* None, raising nothing) does not end the run with an exception.
C24_FailedSolveNeverFatal ==
  [][(ncPc = "await" /\ captcha_token = "None") =>
       (ncPc' # "crashed" /\ ncExit' = "running")]_vars

\* C25: when an attorney iteration starts after an iteration in which a
\* result link was clicked, whether that one saved its record or failed,
\* no detail tab is open and the main page shows the search form.
C25_TabClosedAndFormShown ==
  (InAttorneyLoop /\ adIdx > 1 /\ adClicked # 0) =>
     (adBrowser.tabs = 0 /\ adBrowser.view = "form")

\* the row written last to attorney_details.csv
LastDetailRow == adCsv.rows[Len(adCsv.rows)].rec

\* C26: a detail page that lacks a field still yields one record, with that
\* field empty. A file-history page read by get_attorney_info adds one record
\* to scraped_data whatever elements of Court, FileNumber, Proceeding, Estate
\* Attorney and Estate Attorney Firm it lacks, and each one it lacks is empty
\* in the record; the row saved from an attorney detail page has the four
\* columns Estate Attorney, Email, Address, Phone, each empty when its label
\* or its value cell is not on the page.
C26_AbsentFieldYieldsEmptyValue ==
  [][/\ (InLinkLoop /\ LinkVisible) =>
          (/\ Len(scraped_data') = Len(scraped_data) + 1
           /\ \A f \in CourtFields \ portal.detail :
                scraped_data'[Len(scraped_data')][6][f] = << >>)
     /\ (InAttorneyLoop /\ adOutcome' = "saved") =>
          (/\ Len(adCsv'.rows) = Len(adCsv.rows) + 2
           /\ Len(LastDetailRow') = 4
           /\ \A response \in adPageMenu : \A k \in 1..4 :
                LET field == response[AdHeaderRow.rec[k]]
                IN (~field.label \/ ~field.cell) => LastDetailRow'[k] = << >>)]_vars

\* C29: every search is submitted with the first, middle and last name fields
\* holding what was derived from the current attorney's name, or nothing: a
\* field for which the name gives no value (one token, or five and more) is
\* empty, not left with the text typed for an earlier attorney.
C29_FieldsFromCurrentAttorneyOnly ==
  [][(InAttorneyLoop /\ adCaptcha' # "not_reached") =>
       adSubmitted' = [first |-> first_name', middle |-> middle_name',
                       last |-> last_name']]_vars

\* C27: for a query whose result set has two or more pages, the mutual calls
\* of get_attorney_info and get_next_page terminate: the pagination completes
\* and control is back in the month loop of run().
C27_PaginationReturnsToMonthLoop ==
  (nyPc = "query" /\ qPages >= 2 /\ qLinks >= 1) ~> (nyPc = "month")

\* C28: in a query with several result pages every page is scraped once: no
\* case file contributes a second record to the county batch, because no
\* page is visited again from the pagination control of a later page.
C28_EachPageScrapedOnce == ~HasDuplicates(scraped_data)

\* C30: when the page-size dropdown is visible, the rows handed to
\* scrape_cases were read after the 200-per-page selection was applied: they
\* are all rows of the result set up to 200, not the rows of the default
\* page size.
C30_RowsReadAfterPageSizeApplied ==
  ncGrid.dropdown => ncRows = Min(ncGrid.total, PageSizeOption)

\* every operation `later` in the log follows an operation `earlier` of the
\* same iteration
StepPrecedes(log, earlier, later) ==
  \A i \in 1..Len(log) :
    log[i].op = later =>
      \E k \in 1..(i - 1) : log[k] = Step(earlier, log[i].query)

\* C31: in every iteration of the search loop the site-key is read, then the
\* record number is filled, then the solver is called, then the token is
\* written into #g-recaptcha-response, then submit is clicked, once each;
\* submit is never clicked before the token of the same iteration was written.
C31_SearchStepsInOrder ==
  /\ StepPrecedes(ncSteps, "site_key", "fill")
  /\ StepPrecedes(ncSteps, "fill", "solve")
  /\ StepPrecedes(ncSteps, "solve", "inject")
  /\ StepPrecedes(ncSteps, "inject", "click")
  /\ \A i, k \in 1..Len(ncSteps) : ncSteps[i] = ncSteps[k] => i = k

\* the second iteration was run to its submit click
C31_Witness ==
  /\ Len(ncSearched) = 2
  /\ Len(ncSteps) = 5
  /\ ncSteps[5] = Step("click", ncSearched[2])
  /\ ncPc = "await"

\* C33: the run searches 24E00NN* for NN = 00, 01, 02, ... in increasing
\* order, one query per prefix, none skipped and none repeated: the k-th
\* query of the run is the one of prefix k - 1.
C33_ConsecutivePrefixes ==
  \A k \in 1..Len(ncSearched) :
    RecordNumber(ncSearched[k]) = << "24E00" >> \o TwoDigits(k - 1) \o << "*" >>

\* C32: whatever happens to an attorney, the loop goes on to the next name
\* and the run is not ended, so that every name of the list is attempted
\* once; and each attorney whose details were extracted is written to
\* attorney_details.csv exactly once: the step that extracts details adds
\* one data row, a step that does not adds none.
C32_EveryAttorneyOnceAndSavedOnce ==
  [][InAttorneyLoop =>
       /\ adIdx' = adIdx + 1
       /\ adPc' = "loop"
       /\ adExit' = "running"
       /\ Len(DataRecs(adCsv')) - Len(DataRecs(adCsv)) = adExtracted' - adExtracted]_vars

\* C34: when get_pdf_files has returned, a PDF file is on disk at the path of
\* a case and an event name only if a download_file call for that path
\* returned True: a download that failed while streaming has left no file.
C34_FileOnlyFromCompleteDownload ==
  ncPc = "case_append" =>
    \A k \in 1..Len(ncFileLog) :
      ncFileLog[k].kind = "open" =>
        \E m \in 1..Len(ncFileLog) :
          /\ ncFileLog[m].kind = "open"
          /\ ncFileLog[m].case_no = ncFileLog[k].case_no
          /\ ncFileLog[m].file = ncFileLog[k].file
          /\ ncFileLog[m].complete

\* C35: a Bond event is skipped as already downloaded only if the file of an
\* earlier event of the same case with the same sanitized name was downloaded
\* completely; a name whose download failed on every parent link is not
\* skipped.
C35_SkippedOnlyAfterSuccess ==
  \A k \in 1..Len(ncFileLog) :
    ncFileLog[k].kind = "skip" =>
      \E m \in 1..(k - 1) :
        /\ ncFileLog[m].kind = "open"
        /\ ncFileLog[m].case_no = ncFileLog[k].case_no
        /\ ncFileLog[m].file = ncFileLog[k].file
        /\ ncFileLog[m].complete

\* the searches of a whole run
SearchesOfRun == 2 * NumCounties * NumMonths

HeaderCount(file) == Len(SelectSeq(file.rows, LAMBDA r : r.kind = "header"))

HeaderAddedBy(before, after) == HeaderCount(after) - HeaderCount(before)

OneHeaderFirst(file) ==
  file.exists => HeaderCount(file) = 1 /\ file.rows[1].kind = "header"

\* C10: a save_to_csv call of either NY scraper adds the header row exactly
\* when the file did not exist at the start of the call, and after any
\* sequence of calls that starts with no file the file has exactly one header
\* row, which is its first row.
C10_HeaderOnlyForNewFile ==
  [][/\ courtCsv' # courtCsv =>
          HeaderAddedBy(courtCsv, courtCsv') = (IF courtCsv.exists THEN 0 ELSE 1)
     /\ adCsv' # adCsv =>
          HeaderAddedBy(adCsv, adCsv') = (IF adCsv.exists THEN 0 ELSE 1)
     /\ OneHeaderFirst(courtCsv')
     /\ OneHeaderFirst(adCsv')]_vars

C10_Witness ==
  /\ savesDone = 3
  /\ Len(courtCsv.rows) >= 3
  /\ Len(adCsv.rows) >= 2

====
